---- MODULE Spec2Model ----
(***************************************************************************)
(* kcfg-vex: the kernel configuration tracer (src/kernel/tracer.rs), the   *)
(* DotConfig loader (src/kernel/config.rs), the verdict deriver            *)
(* (src/cve/vex.rs) and the yocto-scan pipeline (src/cli/yocto_scan.rs).   *)
(*                                                                         *)
(* Text is modelled character by character: a Rust String is a TLA+        *)
(* string, and the regular expressions of the target matcher are matched   *)
(* on the characters of each logical Makefile line.                        *)
(***************************************************************************)
EXTENDS Integers, Sequences, FiniteSets, TLC

----------------------------------------------------------------------------
(* Characters and the character classes the regular expressions use.       *)

Ch(s, i) == IF i >= 1 /\ i <= Len(s) THEN SubSeq(s, i, i) ELSE ""

Upper == {"A", "B", "C", "D", "E", "F", "G", "H", "I", "J", "K", "L", "M",
          "N", "O", "P", "Q", "R", "S", "T", "U", "V", "W", "X", "Y", "Z"}
Lower == {"a", "b", "c", "d", "e", "f", "g", "h", "i", "j", "k", "l", "m",
          "n", "o", "p", "q", "r", "s", "t", "u", "v", "w", "x", "y", "z"}
Digit == {"0", "1", "2", "3", "4", "5", "6", "7", "8", "9"}

\* \w of the regex crate (the ASCII part)
WordChar == Upper \cup Lower \cup Digit \cup {"_"}
\* \s of the regex crate, and char::is_whitespace of trim (within one line)
SpaceChar == {" ", "\t"}
\* container_name: [A-Za-z0-9_-]+
ContainerChar == Upper \cup Lower \cup Digit \cup {"_", "-"}
\* [A-Z0-9_]+ of (CONFIG_[A-Z0-9_]+)
ConfigChar == Upper \cup Digit \cup {"_"}

\* \b at the position just before character i (i = Len(s) + 1: the end)
IsBoundary(s, i) == (Ch(s, i - 1) \in WordChar) # (Ch(s, i) \in WordChar)

\* the literal t occurs in s at position i
HasAt(s, i, t) ==
    /\ i >= 1
    /\ i + Len(t) - 1 <= Len(s)
    /\ SubSeq(s, i, i + Len(t) - 1) = t

\* str::contains
Contains(s, t) == \E i \in 1..(Len(s) - Len(t) + 1) : HasAt(s, i, t)

\* the first position >= i whose character is not in class
RECURSIVE RunEnd(_, _, _)
RunEnd(s, i, class) ==
    IF i <= Len(s) /\ Ch(s, i) \in class THEN RunEnd(s, i + 1, class) ELSE i

Min(S) == CHOOSE i \in S : \A j \in S : i <= j
Max(S) == CHOOSE i \in S : \A j \in S : i >= j

----------------------------------------------------------------------------
(* str::trim_end, str::trim_start, str::trim, trim_start_matches,          *)
(* trim_end_matches, str::replace.                                         *)

RECURSIVE trim_end(_)
trim_end(s) ==
    IF Len(s) > 0 /\ Ch(s, Len(s)) \in SpaceChar
    THEN trim_end(SubSeq(s, 1, Len(s) - 1))
    ELSE s

RECURSIVE trim_start(_)
trim_start(s) ==
    IF Len(s) > 0 /\ Ch(s, 1) \in SpaceChar
    THEN trim_start(SubSeq(s, 2, Len(s)))
    ELSE s

trim(s) == trim_end(trim_start(s))

RECURSIVE trim_start_matches(_, _)
trim_start_matches(s, pat) ==
    IF Len(pat) > 0 /\ HasAt(s, 1, pat)
    THEN trim_start_matches(SubSeq(s, Len(pat) + 1, Len(s)), pat)
    ELSE s

RECURSIVE trim_end_matches(_, _)
trim_end_matches(s, pat) ==
    IF Len(pat) > 0 /\ Len(s) >= Len(pat) /\ HasAt(s, Len(s) - Len(pat) + 1, pat)
    THEN trim_end_matches(SubSeq(s, 1, Len(s) - Len(pat)), pat)
    ELSE s

\* str::replace(from, to): every non-overlapping occurrence, left to right
RECURSIVE replace(_, _, _)
replace(s, from, to) ==
    IF Len(s) = 0 THEN ""
    ELSE IF HasAt(s, 1, from)
         THEN to \o replace(SubSeq(s, Len(from) + 1, Len(s)), from, to)
         ELSE Ch(s, 1) \o replace(SubSeq(s, 2, Len(s)), from, to)

----------------------------------------------------------------------------
(* Makefile Reader: read_makefile_lines_no_cache.  A Makefile's content is *)
(* the sequence of its physical lines (content.lines()).                   *)

\* the join of lines 268-284 without line 275, buf.push(' ')
RECURSIVE JoinContinuedNoSpace(_, _, _)
JoinContinuedNoSpace(raw_lines, buf, joined) ==
    IF raw_lines = <<>>
    THEN IF buf # "" THEN Append(joined, buf) ELSE joined
    ELSE LET s == trim_end(Head(raw_lines)) IN
         IF Len(s) > 0 /\ Ch(s, Len(s)) = "\\"
         THEN JoinContinuedNoSpace(Tail(raw_lines),
                                   buf \o SubSeq(s, 1, Len(s) - 1), joined)
         ELSE JoinContinuedNoSpace(Tail(raw_lines), "",
                                   Append(joined, buf \o s))

\* lines 268-284: join backslash-continued lines
RECURSIVE JoinContinued(_, _, _)
JoinContinued(raw_lines, buf, joined) ==
    IF raw_lines = <<>>
    THEN IF buf # "" THEN Append(joined, buf) ELSE joined
    ELSE LET s == trim_end(Head(raw_lines)) IN
         IF Len(s) > 0 /\ Ch(s, Len(s)) = "\\"
         THEN JoinContinued(Tail(raw_lines),
                            buf \o SubSeq(s, 1, Len(s) - 1) \o " ", joined)
         ELSE JoinContinued(Tail(raw_lines), "", Append(joined, buf \o s))

\* patterns.whitespace.replace_all(&line, " "): every maximal run of \s
RECURSIVE CompressWhitespace(_)
CompressWhitespace(s) ==
    IF Len(s) = 0 THEN ""
    ELSE IF Ch(s, 1) \in SpaceChar
         THEN LET e == RunEnd(s, 1, SpaceChar) IN
              " " \o CompressWhitespace(SubSeq(s, e, Len(s)))
         ELSE Ch(s, 1) \o CompressWhitespace(SubSeq(s, 2, Len(s)))

\* lines 286-295: strip and compact whitespace, drop empty lines
RECURSIVE StripCompact(_)
StripCompact(joined) ==
    IF joined = <<>> THEN <<>>
    ELSE LET trimmed == trim(CompressWhitespace(Head(joined))) IN
         IF trimmed # "" THEN <<trimmed>> \o StripCompact(Tail(joined))
         ELSE StripCompact(Tail(joined))

\* the Ok value of read_makefile_lines_no_cache for a readable file
read_makefile_lines_no_cache(raw_lines) ==
    StripCompact(JoinContinued(raw_lines, "", <<>>))

read_makefile_lines(raw_lines) == read_makefile_lines_no_cache(raw_lines)

\* lines.join(" ")
RECURSIVE JoinWith(_, _)
JoinWith(lines, sep) ==
    IF lines = <<>> THEN ""
    ELSE IF Len(lines) = 1 THEN lines[1]
    ELSE lines[1] \o sep \o JoinWith(Tail(lines), sep)

----------------------------------------------------------------------------
(* Target Matcher: the regular expressions of scan_makefile_for_targets.   *)
(* A match is searched at every start position; captures() returns the     *)
(* leftmost one.  NoMatch stands for captures() = None; a group that did   *)
(* not take part in the match is None.                                     *)

\* Option<T>: None is the empty sequence, Some(v) the sequence of v alone
None == <<>>
Some(v) == <<v>>
is_some(o) == o # <<>>
unwrap(o) == o[1]

NoMatch == [matched |-> FALSE]

\* \$\((CONFIG_[A-Z0-9_]+)\) at position i: the position after ")", 0 if none
MatchConfigRef(s, i) ==
    IF HasAt(s, i, "$(CONFIG_")
    THEN LET e == RunEnd(s, i + 9, ConfigChar) IN
         IF e > i + 9 /\ Ch(s, e) = ")" THEN e + 1 ELSE 0
    ELSE 0

\* the group (CONFIG_[A-Z0-9_]+) of a reference matched from i to e
ConfigGroup(s, i, e) == SubSeq(s, i + 2, e - 2)

\* \s*[ops]?=\s.*\b(?:T)\b from position p to some end
MatchAssignTarget(s, p, ops, t) ==
    LET q == RunEnd(s, p, SpaceChar)
        r == IF Ch(s, q) \in ops THEN q + 1 ELSE q
    IN /\ Ch(s, r) = "="
       /\ Ch(s, r + 1) \in SpaceChar
       /\ \E j \in (r + 2)..Len(s) :
              /\ IsBoundary(s, j)
              /\ HasAt(s, j, t)
              /\ IsBoundary(s, j + Len(t))

\* the ends k of a container name [A-Za-z0-9_-]+ that starts at i and is
\* followed by "-" at k
ContainerEnds(s, i) ==
    {k \in (i + 1)..(RunEnd(s, i, ContainerChar) - 1) : Ch(s, k) = "-"}

\* obj_config_pattern / dir_gate_pattern:
\*   \bobj-\$\((CONFIG_[A-Z0-9_]+)\)\s*[ops]?=\s.*\bT\b
ObjConfigAt(s, i, ops, t) ==
    /\ IsBoundary(s, i)
    /\ HasAt(s, i, "obj-")
    /\ MatchConfigRef(s, i + 4) # 0
    /\ MatchAssignTarget(s, MatchConfigRef(s, i + 4), ops, t)

ObjConfigCaptures(s, ops, t) ==
    LET starts == {i \in 1..Len(s) : ObjConfigAt(s, i, ops, t)} IN
    IF starts = {} THEN NoMatch
    ELSE LET i == Min(starts) IN
         [matched |-> TRUE,
          config  |-> Some(ConfigGroup(s, i + 4, MatchConfigRef(s, i + 4)))]

\* 1) obj-$(CONFIG_FOO) += <target>   (line 336: operator \+?= )
obj_config_regex(line, target) == ObjConfigCaptures(line, {"+"}, target)

\* 5) obj-$(CONFIG_QUX) += subdir/    (line 408: operator [:+]?= )
dir_gate_regex(line, subdir_name) ==
    ObjConfigCaptures(line, {":", "+"},
                      trim_end_matches(subdir_name, "/") \o "/")

\* container_config_pattern:
\*   \b(C)-(?:y|m|\$\((CONFIG_[A-Z0-9_]+)\))\s*[:+]?=\s.*\bT\b
\* the position after the alternative that follows "-" at k, 0 if none
ContainerConfigAlt(s, k) ==
    IF Ch(s, k + 1) \in {"y", "m"} THEN k + 2 ELSE MatchConfigRef(s, k + 1)

ContainerConfigAt(s, i, k, t) ==
    /\ IsBoundary(s, i)
    /\ k \in ContainerEnds(s, i)
    /\ ContainerConfigAlt(s, k) # 0
    /\ MatchAssignTarget(s, ContainerConfigAlt(s, k), {":", "+"}, t)

\* 2) <container>-(y|m|$(CONFIG_BAR)) += <target>
container_config_regex(line, target) ==
    LET starts == {i \in 1..Len(line) :
                     \E k \in ContainerEnds(line, i) :
                        ContainerConfigAt(line, i, k, target)}
    IN IF starts = {} THEN NoMatch
       ELSE LET i == Min(starts)
                k == Max({kk \in ContainerEnds(line, i) :
                            ContainerConfigAt(line, i, kk, target)})
            IN [matched   |-> TRUE,
                container |-> SubSeq(line, i, k - 1),
                config    |-> IF Ch(line, k + 1) \in {"y", "m"} THEN None
                              ELSE Some(ConfigGroup(line, k + 1,
                                            MatchConfigRef(line, k + 1)))]

\* container_objs_pattern:  \b(C)-objs\s*[:+]?=\s.*\bT\b
ContainerObjsAt(s, i, k, t) ==
    /\ IsBoundary(s, i)
    /\ k \in ContainerEnds(s, i)
    /\ HasAt(s, k, "-objs")
    /\ MatchAssignTarget(s, k + 5, {":", "+"}, t)

\* 3) <container>-objs :=/+= <target>
container_objs_regex(line, target) ==
    LET starts == {i \in 1..Len(line) :
                     \E k \in ContainerEnds(line, i) :
                        ContainerObjsAt(line, i, k, target)}
    IN IF starts = {} THEN NoMatch
       ELSE LET i == Min(starts)
                k == Max({kk \in ContainerEnds(line, i) :
                            ContainerObjsAt(line, i, kk, target)})
            IN [matched |-> TRUE, container |-> SubSeq(line, i, k - 1)]

\* container_objs_config_pattern:
\*   \b(C)-objs-\$\((CONFIG_[A-Z0-9_]+)\)\s*[:+]?=\s.*\bT\b
ContainerObjsConfigAt(s, i, k, t) ==
    /\ IsBoundary(s, i)
    /\ k \in ContainerEnds(s, i)
    /\ HasAt(s, k, "-objs-")
    /\ MatchConfigRef(s, k + 6) # 0
    /\ MatchAssignTarget(s, MatchConfigRef(s, k + 6), {":", "+"}, t)

\* 4) <container>-objs-$(CONFIG_BAZ) :=/+= <target>
container_objs_config_regex(line, target) ==
    LET starts == {i \in 1..Len(line) :
                     \E k \in ContainerEnds(line, i) :
                        ContainerObjsConfigAt(line, i, k, target)}
    IN IF starts = {} THEN NoMatch
       ELSE LET i == Min(starts)
                k == Max({kk \in ContainerEnds(line, i) :
                            ContainerObjsConfigAt(line, i, kk, target)})
            IN [matched   |-> TRUE,
                container |-> SubSeq(line, i, k - 1),
                config    |-> Some(ConfigGroup(line, k + 6,
                                               MatchConfigRef(line, k + 6)))]

----------------------------------------------------------------------------
(* Paths (camino::Utf8Path).  A path is the sequence of its components     *)
(* below "/"; PathStr displays it.                                         *)

\* the components of a path string: split at "/", "" and "." dropped
RECURSIVE Components(_, _)
Components(s, cur) ==
    IF Len(s) = 0
    THEN IF cur \in {"", "."} THEN <<>> ELSE <<cur>>
    ELSE IF Ch(s, 1) = "/"
         THEN (IF cur \in {"", "."} THEN <<>> ELSE <<cur>>)
              \o Components(SubSeq(s, 2, Len(s)), "")
         ELSE Components(SubSeq(s, 2, Len(s)), cur \o Ch(s, 1))

\* Utf8Path::join: an absolute argument replaces the base
join(base, rel) ==
    IF Ch(rel, 1) = "/" THEN Components(rel, "") ELSE base \o Components(rel, "")

\* Display of a path
RECURSIVE PathStr(_)
PathStr(p) ==
    IF p = <<>> THEN ""
    ELSE PathStr(SubSeq(p, 1, Len(p) - 1)) \o "/" \o p[Len(p)]

\* Utf8Path::file_name: None for "/" and for a path that ends in ".."
file_name(p) ==
    IF p = <<>> \/ p[Len(p)] = ".." THEN None ELSE Some(p[Len(p)])

\* Utf8Path::parent
parent(p) == IF p = <<>> THEN None ELSE Some(SubSeq(p, 1, Len(p) - 1))

\* Utf8Path::starts_with: whole components
starts_with(p, base) ==
    Len(base) <= Len(p) /\ SubSeq(p, 1, Len(base)) = base

\* Utf8Path::strip_prefix: Ok(rest) as Some(rest), Err as None
strip_prefix(p, base) ==
    IF starts_with(p, base) THEN Some(SubSeq(p, Len(base) + 1, Len(p))) ELSE None

\* the path string of a relative path
RECURSIVE RelStr(_)
RelStr(p) ==
    IF p = <<>> THEN ""
    ELSE IF Len(p) = 1 THEN p[1]
    ELSE p[1] \o "/" \o RelStr(Tail(p))

\* the positions of "." in a file name, after its first character
DotsOf(name) == {i \in 2..Len(name) : Ch(name, i) = "."}

\* Utf8Path::with_extension: the file name's extension (after its last ".",
\* a leading "." apart) replaced, or the extension added when it has none
with_extension(p, ext) ==
    IF file_name(p) = None THEN p
    ELSE LET name == p[Len(p)]
             stem == IF DotsOf(name) = {} THEN name
                     ELSE SubSeq(name, 1, Max(DotsOf(name)) - 1)
         IN SubSeq(p, 1, Len(p) - 1) \o <<stem \o "." \o ext>>

\* what the operating system makes of ".." components
RECURSIVE Resolve(_, _)
Resolve(p, acc) ==
    IF p = <<>> THEN acc
    ELSE IF Head(p) = ".."
         THEN Resolve(Tail(p), IF acc = <<>> THEN <<>>
                               ELSE SubSeq(acc, 1, Len(acc) - 1))
         ELSE Resolve(Tail(p), Append(acc, Head(p)))

----------------------------------------------------------------------------
(* The kernel source tree the tracer reads.                                *)

SrcRoot    == <<"k">>
DriversDir == <<"k", "drivers">>
SubDir     == <<"k", "drivers", "sub">>

Directories == {<<>>, SrcRoot, DriversDir, SubDir}
SourceFiles == {SubDir \o <<"m.c">>, SubDir \o <<"m.h">>}
MakefileDirs == {SrcRoot, DriversDir, SubDir}

\* the physical lines a Makefile of each directory may hold
SubPool == << "obj-$(CONFIG_FOO) += m.o",
              "obj-$(CONFIG_BAR)  +=  g.o",
              "obj-y += m.o",
              "xdrv-objs := m.o b.o",
              "obj-$(CONFIG_X) += xdrv.o",
              "top-objs := xdrv.o",
              "obj-$(CONFIG_T) += top.o",
              "obj-$(CONFIG_BAR) += obj.o" >>
DriversPool == << "obj-$(CONFIG_P) += sub/",
                  "obj-$(CONFIG_Q) += sub/m.o",
                  "top-objs := sub/m.o" >>
RootPool == << "obj-$(CONFIG_R) += drivers/" >>

\* the most lines one Makefile holds
MaxLines == 3

NoMakefile         == [exists |-> FALSE, readable |-> FALSE, raw |-> <<>>]
UnreadableMakefile == [exists |-> TRUE, readable |-> FALSE, raw |-> <<>>]
MakefileOf(raw)    == [exists |-> TRUE, readable |-> TRUE, raw |-> raw]

RECURSIVE Pick(_, _, _)
Pick(pool, S, i) ==
    IF i > Len(pool) THEN <<>>
    ELSE (IF i \in S THEN <<pool[i]>> ELSE <<>>) \o Pick(pool, S, i + 1)

\* the Makefiles a directory may hold: none, an unreadable one, or up to
\* MaxLines lines of its pool in the pool's order
MakefilesFrom(pool) ==
    {NoMakefile, UnreadableMakefile}
    \cup {MakefileOf(Pick(pool, S, 1)) :
            S \in {T \in SUBSET (1..Len(pool)) : Cardinality(T) <= MaxLines}}

\* the Makefiles each directory may hold
MakefilesIn(d) ==
    IF d = SubDir THEN MakefilesFrom(SubPool)
    ELSE IF d = DriversDir THEN MakefilesFrom(DriversPool)
    ELSE {NoMakefile, MakefileOf(RootPool)}

----------------------------------------------------------------------------
(* State.                                                                  *)

VARIABLES
    mk,       \* the source tree: the Makefile of each directory
    trace,    \* per worker thread: the call of trace_kernel_config it runs
    args,     \* yocto-scan: the command line and the files it names
    scan,     \* yocto-scan: the locals of yocto_scan_command
    proc,     \* yocto-scan: per worker thread, the advisory it processes
    cache,    \* the fetcher's cache directory: advisory id -> file text
    outfiles, \* the files the command has written
    dotcfg,   \* DotConfig loader: the text given and the DotConfig parsed
    call,     \* a direct call of a library function: arguments and result
    patterns  \* the static PATTERNS cell of RegexPatterns::get

vars == <<mk, trace, args, scan, proc, cache, outfiles, dotcfg, call, patterns>>
pipeVars == <<args, scan, proc, cache, outfiles>>

\* a faulty Path::exists: every path is taken to exist
exists_always(p) == TRUE

\* Path::exists
exists(p) ==
    LET r == Resolve(p, <<>>) IN
    \/ r \in Directories
    \/ r \in SourceFiles
    \/ \E d \in MakefileDirs : r = d \o <<"Makefile">> /\ mk[d].exists

\* get_makefile_path: Some(path) as the file behind it
get_makefile_path(directory) ==
    LET d == Resolve(directory, <<>>) IN
    IF d \in MakefileDirs /\ mk[d].exists THEN Some(mk[d]) ELSE None

is_within(path, src_root) == starts_with(path, src_root)

object_path_relative_to(src_path, ancestor_dir) ==
    LET o == with_extension(src_path, "o") IN
    IF strip_prefix(o, ancestor_dir) # None
    THEN RelStr(unwrap(strip_prefix(o, ancestor_dir)))
    ELSE unwrap(file_name(o))

----------------------------------------------------------------------------
(* scan_makefile_for_targets                                               *)

ScanOk(configs, containers) ==
    [ok |-> TRUE, configs_for_target |-> configs, containers |-> containers]
ScanErr == [ok |-> FALSE, configs_for_target |-> {}, containers |-> {}]

\* lines 359-401 and 404-419: the symbols one logical line contributes
LineConfigs(line, target, subdir, targets_mentioned) ==
    LET r1 == obj_config_regex(line, target)
        r2 == container_config_regex(line, target)
        r4 == container_objs_config_regex(line, target)
    IN (IF targets_mentioned
        THEN (IF r1.matched THEN {unwrap(r1.config)} ELSE {})
             \cup (IF r2.matched /\ is_some(r2.config)
                   THEN {unwrap(r2.config)} ELSE {})
             \cup (IF r4.matched THEN {unwrap(r4.config)} ELSE {})
        ELSE {})
       \cup (IF is_some(subdir) /\ dir_gate_regex(line, unwrap(subdir)).matched
             THEN {unwrap(dir_gate_regex(line, unwrap(subdir)).config)}
             ELSE {})

\* lines 368-396: the containers one logical line contributes
LineContainers(line, target, targets_mentioned) ==
    LET r2 == container_config_regex(line, target)
        r3 == container_objs_regex(line, target)
        r4 == container_objs_config_regex(line, target)
    IN IF targets_mentioned
       THEN (IF r2.matched THEN {r2.container \o ".o"} ELSE {})
            \cup (IF r3.matched THEN {r3.container \o ".o"} ELSE {})
            \cup (IF r4.matched THEN {r4.container \o ".o"} ELSE {})
       ELSE {}

\* scan_makefile_for_targets with an early-out that does not look at the
\* subdirectory hint
scan_makefile_early_out_ignores_hint(makefile, target, subdir) ==
    IF ~makefile.exists THEN ScanOk({}, {})
    ELSE IF ~makefile.readable THEN ScanErr
    ELSE LET lines == read_makefile_lines(makefile.raw)
             targets_mentioned == Contains(JoinWith(lines, " "), target)
         IN IF target = "" THEN ScanOk({}, {})
            ELSE IF ~targets_mentioned THEN ScanOk({}, {})
            ELSE ScanOk(
                   UNION {LineConfigs(lines[n], target, subdir,
                                      targets_mentioned) : n \in 1..Len(lines)},
                   UNION {LineContainers(lines[n], target,
                                         targets_mentioned) : n \in 1..Len(lines)})

scan_makefile_for_targets(makefile, target, subdir) ==
    IF ~makefile.exists THEN ScanOk({}, {}) \* no lines: nothing matches
    ELSE IF ~makefile.readable THEN ScanErr \* read_to_string(path)?
    ELSE LET lines == read_makefile_lines(makefile.raw)
             targets_mentioned == Contains(JoinWith(lines, " "), target)
         IN IF target = "" THEN ScanOk({}, {})
            ELSE IF ~targets_mentioned /\ subdir = None THEN ScanOk({}, {})
            ELSE ScanOk(
                   UNION {LineConfigs(lines[n], target, subdir,
                                      targets_mentioned) : n \in 1..Len(lines)},
                   UNION {LineContainers(lines[n], target,
                                         targets_mentioned) : n \in 1..Len(lines)})

----------------------------------------------------------------------------
(* trace_kernel_config, as the steps of one call.                          *)
(*   pc = "idle"  no call in progress                                      *)
(*   pc = "loop"  at the head of `while !processing_queue.is_empty()`      *)
(*   pc = "batch" inside `for ... in current_batch`                        *)
(*   pc = "done"  returned: ret is Ok(TraceResult), Err(_) or a panic      *)
(* scanned logs the calls of scan_makefile_for_targets, in order.          *)

IdleTrace ==
    [pc |-> "idle", file |-> "", file_dir |-> <<>>,
     processing_queue |-> <<>>, current_batch |-> <<>>,
     visited_containers |-> {}, objects |-> {}, symbols |-> {},
     edges |-> <<>>, scanned |-> <<>>, ret |-> None]

TraceResult(file, objects, symbols, edges, error) ==
    [file |-> file, objects |-> objects, symbols |-> symbols,
     edges |-> edges, error |-> error]

RetOk(v) == [kind |-> "Ok", value |-> v]
RetErr(e) == [kind |-> "Err", value |-> e]
RetPanic == [kind |-> "Panic", value |-> "unwrap on None"]

QueueEntry(target, directory, subdir_hint, source_target) ==
    [target |-> target, directory |-> directory,
     subdir_hint |-> subdir_hint, source_target |-> source_target]

TraceEdge(src, dst, via) == [src |-> src, dst |-> dst, via |-> via]

\* lines 131-151: one seed per ancestor directory strictly below src_root
RECURSIVE ParentSeeds(_, _, _)
ParentSeeds(src_path, scan_child, obj_name) ==
    IF parent(scan_child) = None THEN <<>>
    ELSE LET parent_dir == unwrap(parent(scan_child)) IN
         IF ~is_within(parent_dir, SrcRoot) \/ parent_dir = SrcRoot THEN <<>>
         ELSE <<QueueEntry(object_path_relative_to(src_path, parent_dir),
                           parent_dir,
                           Some(unwrap(file_name(scan_child))),
                           obj_name)>>
              \o ParentSeeds(src_path, parent_dir, obj_name)

\* line 140: scan_child.file_name().unwrap() panics in the ascent from
\* scan_child, which happens for a scan_child that ends in ".."
RECURSIVE SeedPanics(_)
SeedPanics(scan_child) ==
    IF parent(scan_child) = None THEN FALSE
    ELSE LET parent_dir == unwrap(parent(scan_child)) IN
         IF ~is_within(parent_dir, SrcRoot) \/ parent_dir = SrcRoot THEN FALSE
         ELSE file_name(scan_child) = None \/ SeedPanics(parent_dir)

\* lines 74-151: the call up to the first test of the while loop
trace_begin(rel_file) ==
    LET rel == trim_start_matches(trim(rel_file), "./")
        src_path == join(SrcRoot, rel)
    IN
    IF ~exists(src_path)
    THEN [IdleTrace EXCEPT
            !.pc = "done", !.file = rel_file,
            !.ret = Some(RetOk(TraceResult(rel_file, {}, {}, <<>>,
                      Some("File not found in source tree: "
                           \o PathStr(src_path)))))]
    ELSE IF \/ file_name(src_path) = None    \* file_name().unwrap()
            \/ SeedPanics(unwrap(parent(src_path)))
    THEN [IdleTrace EXCEPT
            !.pc = "done", !.file = rel_file, !.ret = Some(RetPanic)]
    ELSE
    LET obj_name == replace(unwrap(file_name(src_path)), ".c", ".o")
        file_dir == unwrap(parent(src_path))
        rel_from_makefile_dir ==
            IF strip_prefix(with_extension(src_path, "o"), file_dir) # None
            THEN Some(RelStr(unwrap(
                     strip_prefix(with_extension(src_path, "o"), file_dir))))
            ELSE None
    IN [IdleTrace EXCEPT
          !.pc = "loop", !.file = rel_file, !.file_dir = file_dir,
          !.objects = {obj_name},
          !.processing_queue =
              <<QueueEntry(obj_name, file_dir, None, obj_name)>>
              \o (IF is_some(rel_from_makefile_dir)
                     /\ unwrap(rel_from_makefile_dir) # obj_name
                  THEN <<QueueEntry(unwrap(rel_from_makefile_dir), file_dir,
                                    None, obj_name)>>
                  ELSE <<>>)
              \o ParentSeeds(src_path, file_dir, obj_name)]

\* a faulty loop head: the queue is not cleared after it is copied
trace_loop_keeps_queue(t) ==
    IF t.processing_queue = <<>>
    THEN [t EXCEPT !.pc = "done",
            !.ret = Some(RetOk(TraceResult(t.file, t.objects, t.symbols,
                                           t.edges, None)))]
    ELSE [t EXCEPT !.pc = "batch", !.current_batch = t.processing_queue]

\* lines 154-156 and 212-228: the while test; drain the queue or return
trace_loop(t) ==
    IF t.processing_queue = <<>>
    THEN [t EXCEPT !.pc = "done",
            !.ret = Some(RetOk(TraceResult(t.file, t.objects, t.symbols,
                                           t.edges, None)))]
    ELSE [t EXCEPT !.pc = "batch",
            !.current_batch = t.processing_queue,
            !.processing_queue = <<>>]

\* the orders in which a HashSet may be iterated
Orders(S) ==
    {f \in [1..Cardinality(S) -> S] :
        \A i, j \in 1..Cardinality(S) : i # j => f[i] # f[j]}

\* the position after one iteration of the for loop
AfterItem(t) ==
    IF Len(t.current_batch) = 1 THEN "loop" ELSE "batch"

\* a faulty iteration: of the containers found, only the one the HashSet
\* yields first is taken
trace_item_first_container(t, scan_result, config_order, container_order) ==
    LET first_only == IF container_order = <<>> THEN <<>>
                      ELSE <<container_order[1]>>
        item == Head(t.current_batch)
        container_key == item.target \o "@" \o PathStr(item.directory)
        hinted == is_some(item.subdir_hint)
        config_edges ==
            [n \in 1..Len(config_order) |->
                TraceEdge(item.source_target \o "@" \o PathStr(t.file_dir),
                          "CONFIG:" \o config_order[n],
                          IF hinted THEN "parent directory gate"
                          ELSE "makefile rule")]
        container_edges ==
            [n \in 1..Len(first_only) |->
                TraceEdge(item.target \o "@" \o PathStr(item.directory),
                          first_only[n] \o "@" \o PathStr(item.directory),
                          IF hinted THEN "parent container includes target"
                          ELSE "container includes target")]
        pushed ==
            [n \in 1..Len(first_only) |->
                QueueEntry(first_only[n], item.directory, None,
                           item.source_target)]
    IN [t EXCEPT
          !.pc = AfterItem(t),
          !.current_batch = Tail(t.current_batch),
          !.visited_containers = @ \cup {container_key},
          !.scanned = Append(@, [target |-> item.target,
                                 directory |-> item.directory,
                                 subdir_hint |-> item.subdir_hint]),
          !.symbols = @ \cup scan_result.configs_for_target,
          !.objects = @ \cup {first_only[n] : n \in 1..Len(first_only)},
          !.edges = @ \o config_edges \o container_edges,
          !.processing_queue = @ \o pushed]

\* lines 158-209: one iteration of the for loop, the scan result's sets
\* iterated in the orders config_order and container_order
trace_item(t, scan_result, config_order, container_order) ==
    LET item == Head(t.current_batch)
        container_key == item.target \o "@" \o PathStr(item.directory)
        hinted == is_some(item.subdir_hint)
        config_edges ==
            [n \in 1..Len(config_order) |->
                TraceEdge(item.source_target \o "@" \o PathStr(t.file_dir),
                          "CONFIG:" \o config_order[n],
                          IF hinted THEN "parent directory gate"
                          ELSE "makefile rule")]
        container_edges ==
            [n \in 1..Len(container_order) |->
                TraceEdge(item.target \o "@" \o PathStr(item.directory),
                          container_order[n] \o "@" \o PathStr(item.directory),
                          IF hinted THEN "parent container includes target"
                          ELSE "container includes target")]
        pushed ==
            [n \in 1..Len(container_order) |->
                QueueEntry(container_order[n], item.directory, None,
                           item.source_target)]
    IN [t EXCEPT
          !.pc = AfterItem(t),
          !.current_batch = Tail(t.current_batch),
          !.visited_containers = @ \cup {container_key},
          !.scanned = Append(@, [target |-> item.target,
                                 directory |-> item.directory,
                                 subdir_hint |-> item.subdir_hint]),
          !.symbols = @ \cup scan_result.configs_for_target,
          !.objects = @ \cup scan_result.containers,
          !.edges = @ \o config_edges \o container_edges,
          !.processing_queue = @ \o pushed]

\* the iteration without the test of line 187, !objects.contains(container)
TraceItemOutcomesNoDedup(t) ==
    LET item == Head(t.current_batch)
        container_key == item.target \o "@" \o PathStr(item.directory)
        makefile_path == get_makefile_path(item.directory)
        skip == [t EXCEPT !.pc = AfterItem(t),
                          !.current_batch = Tail(t.current_batch)]
    IN
    IF container_key \in t.visited_containers THEN {skip}
    ELSE IF makefile_path = None
    THEN {[skip EXCEPT !.visited_containers = @ \cup {container_key}]}
    ELSE
    LET scan_result == scan_makefile_for_targets(unwrap(makefile_path),
                                                 item.target, item.subdir_hint)
    IN IF ~scan_result.ok
       THEN {[t EXCEPT !.pc = "done",
                !.visited_containers = @ \cup {container_key},
                !.scanned = Append(@, [target |-> item.target,
                                       directory |-> item.directory,
                                       subdir_hint |-> item.subdir_hint]),
                !.ret = Some(RetErr("Io"))]}
       ELSE {trace_item(t, scan_result, config_order, container_order) :
                config_order \in Orders(scan_result.configs_for_target),
                container_order \in
                    Orders(scan_result.containers)}

\* the records one iteration of the for loop may leave
TraceItemOutcomes(t) ==
    LET item == Head(t.current_batch)
        container_key == item.target \o "@" \o PathStr(item.directory)
        makefile_path == get_makefile_path(item.directory)
        skip == [t EXCEPT !.pc = AfterItem(t),
                          !.current_batch = Tail(t.current_batch)]
    IN
    IF container_key \in t.visited_containers THEN {skip}
    ELSE IF makefile_path = None
    THEN {[skip EXCEPT !.visited_containers = @ \cup {container_key}]}
    ELSE
    LET scan_result == scan_makefile_for_targets(unwrap(makefile_path),
                                                 item.target, item.subdir_hint)
    IN IF ~scan_result.ok
       THEN {[t EXCEPT !.pc = "done",
                !.visited_containers = @ \cup {container_key},
                !.scanned = Append(@, [target |-> item.target,
                                       directory |-> item.directory,
                                       subdir_hint |-> item.subdir_hint]),
                !.ret = Some(RetErr("Io"))]}
       ELSE {trace_item(t, scan_result, config_order, container_order) :
                config_order \in Orders(scan_result.configs_for_target),
                container_order \in
                    Orders(scan_result.containers \ t.objects)}

\* lines 36-44: what RegexPatterns::get stores in PATTERNS on first use
RegexPatternsInit ==
    [whitespace |-> "\\s+", container_name |-> "[A-Za-z0-9_-]+"]

\* OnceLock::get_or_init: the cell after a call of RegexPatterns::get, if
\* one is made
get_or_init(cell, called) ==
    IF called /\ cell = None THEN Some(RegexPatternsInit) ELSE cell

\* the next iteration of the for loop reaches RegexPatterns::get (line 287):
\* it scans a Makefile that can be read
ReadsPatterns(t) ==
    LET item == Head(t.current_batch)
        container_key == item.target \o "@" \o PathStr(item.directory)
        makefile_path == get_makefile_path(item.directory)
    IN /\ container_key \notin t.visited_containers
       /\ is_some(makefile_path)
       /\ unwrap(makefile_path).readable

\* the steps of worker w's call
TraceLoop(w) ==
    /\ trace[w].pc = "loop"
    /\ trace' = [trace EXCEPT ![w] = trace_loop(trace[w])]
    /\ UNCHANGED <<mk, patterns, pipeVars, dotcfg, call>>

TraceItem(w) ==
    /\ trace[w].pc = "batch"
    /\ \E t \in TraceItemOutcomes(trace[w]) :
          trace' = [trace EXCEPT ![w] = t]
    /\ patterns' = get_or_init(patterns, ReadsPatterns(trace[w]))
    /\ UNCHANGED <<mk, pipeVars, dotcfg, call>>

----------------------------------------------------------------------------
(* DotConfig (src/kernel/config.rs).  A text is the sequence of its lines  *)
(* (text.lines()); values is the HashMap, a function on the keys recorded. *)

\* str::find('='): the position of the first "=", 0 if none
FindEq(line) ==
    LET at == {i \in 1..Len(line) : Ch(line, i) = "="} IN
    IF at = {} THEN 0 ELSE Min(at)

\* HashMap::insert
MapInsert(values, key, value) ==
    [k \in DOMAIN values \cup {key} |->
        IF k = key THEN value ELSE values[k]]

NotSetSuffix == " is not set"

\* lines 20-43: the body of the for loop for one line
from_text_line(values, raw_line) ==
    LET line == trim(raw_line) IN
    IF line = "" \/ HasAt(line, 1, "#") THEN values          \* continue
    ELSE IF HasAt(line, 1, "CONFIG_")
    THEN IF FindEq(line) # 0
         THEN MapInsert(values, SubSeq(line, 1, FindEq(line) - 1),
                        SubSeq(line, FindEq(line) + 1, Len(line)))
         ELSE values
    ELSE IF /\ HasAt(line, 1, "# CONFIG_")
            /\ Len(line) >= Len(NotSetSuffix)
            /\ HasAt(line, Len(line) - Len(NotSetSuffix) + 1, NotSetSuffix)
    THEN MapInsert(values, SubSeq(line, 3, Len(line) - Len(NotSetSuffix)), "n")
    ELSE values

RECURSIVE FromTextFold(_, _)
FromTextFold(values, lines) ==
    IF lines = <<>> THEN values
    ELSE FromTextFold(from_text_line(values, Head(lines)), Tail(lines))

\* DotConfig::from_text: the values of the DotConfig returned
from_text(text) == FromTextFold(<<>>, text)

\* a faulty is_enabled: a module counts as enabled whatever the flag
is_enabled_modules_always(values, symbol, include_modules) ==
    symbol \in DOMAIN values /\ values[symbol] \in {"y", "m"}

\* DotConfig::is_enabled
is_enabled(values, symbol, include_modules) ==
    IF symbol \in DOMAIN values
    THEN IF values[symbol] = "y" THEN TRUE
         ELSE IF values[symbol] = "m" THEN include_modules
         ELSE FALSE
    ELSE FALSE

\* DotConfig::enabled_set
enabled_set(values, include_modules) ==
    {key \in DOMAIN values :
        \/ values[key] = "y"
        \/ values[key] = "m" /\ include_modules}

----------------------------------------------------------------------------
(* Ordering of strings (Vec::sort) and Vec::dedup.                         *)

AsciiOrder ==
    "-./0123456789:ABCDEFGHIJKLMNOPQRSTUVWXYZ_abcdefghijklmnopqrstuvwxyz"

CharRank(c) == Min({i \in 1..Len(AsciiOrder) : Ch(AsciiOrder, i) = c})

\* a < b for strings, byte-wise
RECURSIVE StrLess(_, _)
StrLess(a, b) ==
    IF Len(b) = 0 THEN FALSE
    ELSE IF Len(a) = 0 THEN TRUE
    ELSE IF Ch(a, 1) = Ch(b, 1)
         THEN StrLess(SubSeq(a, 2, Len(a)), SubSeq(b, 2, Len(b)))
         ELSE CharRank(Ch(a, 1)) < CharRank(Ch(b, 1))

RECURSIVE InsertSorted(_, _)
InsertSorted(sorted, v) ==
    IF sorted = <<>> THEN <<v>>
    ELSE IF StrLess(v, Head(sorted)) THEN <<v>> \o sorted
    ELSE <<Head(sorted)>> \o InsertSorted(Tail(sorted), v)

RECURSIVE SortStrings(_)
SortStrings(seq) ==
    IF seq = <<>> THEN <<>>
    ELSE InsertSorted(SortStrings(Tail(seq)), Head(seq))

RECURSIVE Dedup(_)
Dedup(seq) ==
    IF Len(seq) <= 1 THEN seq
    ELSE IF seq[1] = seq[2] THEN Dedup(Tail(seq))
    ELSE <<seq[1]>> \o Dedup(Tail(seq))

RECURSIVE Flatten(_)
Flatten(seqs) ==
    IF seqs = <<>> THEN <<>> ELSE Head(seqs) \o Flatten(Tail(seqs))

Range(seq) == {seq[n] : n \in 1..Len(seq)}

----------------------------------------------------------------------------
(* Advisory File Extractor.  An advisory document is modelled by its       *)
(* containers.cna.affected array: per entry, the programFiles strings      *)
(* (an entry without programFiles holds none).                             *)

extract_program_files_from_cve(cve_data) ==
    LET files == Flatten(cve_data)
        clean == [n \in 1..Len(files) |-> trim_start_matches(files[n], "./")]
    IN Dedup(SortStrings(clean))

----------------------------------------------------------------------------
(* Verdict Deriver and VEX documents (src/cve/vex.rs).                     *)

VexEntry(cve_id, state, detail, justification, component_refs) ==
    [cve_id |-> cve_id, state |-> state, justification |-> justification,
     detail |-> detail, component_refs |-> component_refs]

\* a faulty derive_vex_state: the branches of `enabled` exchanged
derive_vex_state_swapped(enabled, union_symbols, symbols_list) ==
    IF union_symbols = {}
    THEN <<"under_investigation", None,
           "Could not infer enabling symbols for listed programFiles">>
    ELSE IF ~enabled
    THEN <<"affected", None,
           "Enabled symbols: " \o JoinWith(symbols_list, ", ")>>
    ELSE <<"not_affected", Some("code_not_reachable"),
           "Required symbols present in source but not enabled in provided .config: "
               \o JoinWith(symbols_list, ", ")>>

\* derive_vex_state, the union iterated in the order symbols_list
derive_vex_state(enabled, union_symbols, symbols_list) ==
    IF union_symbols = {}
    THEN <<"under_investigation", None,
           "Could not infer enabling symbols for listed programFiles">>
    ELSE IF enabled
    THEN <<"affected", None,
           "Enabled symbols: " \o JoinWith(symbols_list, ", ")>>
    ELSE <<"not_affected", Some("code_not_reachable"),
           "Required symbols present in source but not enabled in provided .config: "
               \o JoinWith(symbols_list, ", ")>>

\* build_vex: the vulnerabilities of the document
build_vex(entries) ==
    [n \in 1..Len(entries) |->
        [id |-> entries[n].cve_id,
         source |-> [name |-> "NVD",
                     url |-> "https://nvid.nist.gov/vuln/detail/"
                             \o entries[n].cve_id],
         analysis |-> [state |-> entries[n].state,
                       detail |-> entries[n].detail,
                       justification |-> entries[n].justification],
         affects |-> entries[n].component_refs]]

VexStates == {"affected", "not_affected", "under_investigation"}

\* lines 195-202: the entries of one state, in the order given
EntriesOfState(vex_entries, state) ==
    SelectSeq(vex_entries, LAMBDA e : e.state = state)

\* write_split_vex_output: the directory's files after the call
write_split_vex_output(files, vex_entries) ==
    LET states == VexStates \cup {e.state : e \in Range(vex_entries)}
        written == {st \in states : EntriesOfState(vex_entries, st) # <<>>}
        names == {"vex_" \o st \o ".json" : st \in written}
    IN [f \in DOMAIN files \cup names |->
          IF f \in names
          THEN build_vex(EntriesOfState(vex_entries,
                   CHOOSE st \in written : f = "vex_" \o st \o ".json"))
          ELSE files[f]]

----------------------------------------------------------------------------
(* The inputs of yocto-scan.                                               *)

\* the most advisories a summary queues: one parallel task each
MaxCves == 2
Tasks == 1..MaxCves

Issue(id, status) == [id |-> id, status |-> Some(status)]
Package(products, issues) == [products |-> products, issue |-> issues]

\* the advisory summaries (the "package" array of the Yocto document)
Summaries ==
    { << Package(<<"linux_kernel">>,
                 <<Issue("CVE-1", "Unpatched"), Issue("CVE-3", "Unpatched")>>) >>,
      << Package(<<"linux_kernel">>,
                 <<Issue("CVE-1", "Unpatched"), Issue("CVE-2", "Unpatched")>>),
         Package(<<"busybox">>, <<Issue("CVE-4", "Unpatched")>>) >>,
      << Package(<<"linux", "linux_kernel">>,
                 <<Issue("CVE-2", "Patched"), Issue("XSA-1", "Unpatched")>>),
         Package(<<"linux_kernel">>,
                 <<Issue("CVE-2", "Unpatched"), Issue("CVE-1", "Patched")>>) >> }

CveIds == {"CVE-1", "CVE-2", "CVE-3", "CVE-4"}

\* what the advisory endpoint holds: per id, the affected entries'
\* programFiles
Endpoint ==
    [id \in CveIds |->
        IF id = "CVE-1" THEN << <<"drivers/sub/m.c">> >>
        ELSE IF id = "CVE-2"
        THEN << <<"nonexistent/x.c">>, <<"./drivers/sub/m.c", "nonexistent/x.c">> >>
        ELSE << <<>> >>]

\* the .config files: the lines of each
DotConfigTexts ==
    { <<"CONFIG_FOO=y", "# CONFIG_X is not set", "CONFIG_Q=m">>,
      <<"CONFIG_FOO=n", "", "CONFIG_P=\"y\"">>,
      <<"CONFIG_FOO=y", "# CONFIG_FOO is not set">> }

File(content) == [readable |-> TRUE, content |-> content]
UnreadableFile == [readable |-> FALSE, content |-> <<>>]

\* the SBOM documents
Component(name, bom_ref) == [name |-> name, bom_ref |-> bom_ref]
Sboms ==
    { [bomFormat |-> "CycloneDX", serialNumber |-> "urn:uuid:1234",
       version |-> None,
       components |-> <<Component("busybox", Some("bb")),
                        Component("linux_kernel", Some("kernel-6"))>>],
      [bomFormat |-> "CycloneDX", serialNumber |-> "",
       version |-> Some("2"), components |-> <<>>],
      [bomFormat |-> "SPDX", serialNumber |-> "", version |-> None,
       components |-> <<>>] }

\* the source trees yocto-scan runs on: sub/Makefile and drivers/Makefile
Tree(sub, drivers) ==
    [d \in MakefileDirs |->
        IF d = SubDir THEN sub ELSE IF d = DriversDir THEN drivers
        ELSE NoMakefile]

ScanTrees ==
    { Tree(MakefileOf(<<SubPool[1], SubPool[2]>>), NoMakefile),
      Tree(MakefileOf(<<SubPool[4], SubPool[5]>>),
           MakefileOf(<<DriversPool[2]>>)),
      Tree(MakefileOf(<<SubPool[3]>>), MakefileOf(<<DriversPool[1]>>)),
      Tree(UnreadableMakefile, NoMakefile) }

----------------------------------------------------------------------------
(* yocto_scan_command and its helpers.                                     *)

has_linux_kernel(package) ==
    \E n \in 1..Len(package.products) : package.products[n] = "linux_kernel"

IssuesOf(yocto_data) ==
    UNION {Range(yocto_data[n].issue) :
             n \in {m \in 1..Len(yocto_data) : has_linux_kernel(yocto_data[m])}}

\* extract_cve_ids_from_yocto: the two HashSets before into_iter().collect()
extract_cve_ids_from_yocto(yocto_data) ==
    [cve_ids |->
        {i.id : i \in {j \in IssuesOf(yocto_data) :
                          HasAt(j.id, 1, "CVE-") /\ j.status # Some("Patched")}},
     patched_cve_ids |->
        {i.id : i \in {j \in IssuesOf(yocto_data) :
                          HasAt(j.id, 1, "CVE-") /\ j.status = Some("Patched")}}]

\* the last segment of str::split(':')
RECURSIVE LastSegment(_)
LastSegment(str) ==
    LET at == {i \in 1..Len(str) : Ch(str, i) = ":"} IN
    IF at = {} THEN str ELSE SubSeq(str, Max(at) + 1, Len(str))

load_sbom_component_refs(sbom_file) ==
    IF ~sbom_file.readable THEN RetErr("Io")
    ELSE LET sbom_doc == sbom_file.content IN
    IF sbom_doc.bomFormat # "CycloneDX" THEN RetErr("InvalidConfig")
    ELSE
    LET serial_uuid == IF sbom_doc.serialNumber = "" THEN "unknown"
                       ELSE LastSegment(sbom_doc.serialNumber)
        bom_version == IF is_some(sbom_doc.version)
                       THEN unwrap(sbom_doc.version) ELSE "1"
        kernel == SelectSeq(sbom_doc.components,
                            LAMBDA c : c.name = "linux_kernel")
        out_refs == [n \in 1..Len(kernel) |->
                       "urn:cdx:" \o serial_uuid \o "/" \o bom_version \o "#"
                       \o (IF is_some(kernel[n].bom_ref)
                           THEN unwrap(kernel[n].bom_ref) ELSE kernel[n].name)]
    IN RetOk(IF out_refs = <<>>
             THEN <<"urn:cdx:" \o serial_uuid \o "/" \o bom_version
                    \o "#kernel">>
             ELSE out_refs)

FetchOk(v) == [ok |-> TRUE, value |-> v]
FetchErr(e) == [ok |-> FALSE, value |-> e]

\* JSON text of an advisory document.  A document of the model is an array
\* of arrays of strings, and its strings hold no character that JSON
\* escapes.
JsonWs == {" ", "\t", "\n", "\r"}

RECURSIVE Indent(_)
Indent(level) == IF level = 0 THEN "" ELSE "  " \o Indent(level - 1)

\* serde_json's PrettyFormatter for an array whose items are rendered
RECURSIVE PrettyItems(_, _)
PrettyItems(items, level) ==
    IF Len(items) = 1 THEN Indent(level) \o items[1]
    ELSE Indent(level) \o items[1] \o ",\n" \o PrettyItems(Tail(items), level)

PrettyArray(items, level) ==
    IF items = <<>> THEN "[]"
    ELSE "[\n" \o PrettyItems(items, level + 1) \o "\n" \o Indent(level) \o "]"

\* serde_json::to_string_pretty(data)
to_string_pretty(data) ==
    PrettyArray([i \in 1..Len(data) |->
                   PrettyArray([j \in 1..Len(data[i]) |->
                                  "\"" \o data[i][j] \o "\""], 1)], 0)

ParseFail == [ok |-> FALSE, value |-> <<>>, next |-> 0]
ParseOk(value, next) == [ok |-> TRUE, value |-> value, next |-> next]

SkipWs(s, i) == RunEnd(s, i, JsonWs)

\* a JSON string that starts at position i
ParseString(s, i) ==
    IF i > Len(s) \/ Ch(s, i) # "\"" THEN ParseFail
    ELSE LET closes == {j \in (i + 1)..Len(s) : Ch(s, j) = "\""} IN
         IF closes = {} THEN ParseFail
         ELSE ParseOk(SubSeq(s, i + 1, Min(closes) - 1), Min(closes) + 1)

\* a JSON array that starts at position i; its elements are strings for
\* depth 1 and arrays of depth - 1 otherwise
RECURSIVE ParseArray(_, _, _)
RECURSIVE ParseElements(_, _, _, _)
ParseElements(s, i, depth, acc) ==
    LET elem == IF depth = 1 THEN ParseString(s, i)
                ELSE ParseArray(s, i, depth - 1)
    IN IF ~elem.ok THEN ParseFail
       ELSE LET k == SkipWs(s, elem.next) IN
            IF k > Len(s) THEN ParseFail
            ELSE IF Ch(s, k) = ","
            THEN ParseElements(s, SkipWs(s, k + 1), depth,
                               Append(acc, elem.value))
            ELSE IF Ch(s, k) = "]"
            THEN ParseOk(Append(acc, elem.value), k + 1)
            ELSE ParseFail

ParseArray(s, i, depth) ==
    IF i > Len(s) \/ Ch(s, i) # "[" THEN ParseFail
    ELSE LET k == SkipWs(s, i + 1) IN
         IF k <= Len(s) /\ Ch(s, k) = "]" THEN ParseOk(<<>>, k + 1)
         ELSE ParseElements(s, k, depth, <<>>)

\* serde_json::from_str(&content): None stands for Err
from_str(content) ==
    LET r == ParseArray(content, SkipWs(content, 1), 2) IN
    IF r.ok /\ SkipWs(content, r.next) = Len(content) + 1
    THEN Some(r.value) ELSE None

\* lines 103-113; files are the files of the cache directory, by advisory id
load_cached(cve_id, files) ==
    IF cve_id \notin DOMAIN files THEN FetchErr("Io")   \* read_to_string(..)?
    ELSE LET json == from_str(files[cve_id]) IN
         IF json = None THEN FetchErr("Json") ELSE FetchOk(unwrap(json))

\* save_to_cache that writes nothing
save_to_cache_writes_nothing(cve_id, data, files, writable) == files

\* lines 115-128: the files after the call; a directory that cannot be
\* written makes the call return Err and leaves the files as they were
save_to_cache(cve_id, data, files, writable) ==
    IF writable THEN MapInsert(files, cve_id, to_string_pretty(data))
    ELSE files

\* lines 26-37: answers[cve_id] tells whether the endpoint answers
fetch_cve(cve_id, answers) ==
    IF answers[cve_id] THEN FetchOk(Endpoint[cve_id])
    ELSE FetchErr("CveNotFound")

NoFetched == [results |-> <<>>, cache |-> <<>>, requests |-> <<>>]

\* CveFetcher::fetch_many_cves for the ids in turn.  acc holds the results
\* map, the files of the cache directory and the requests sent so far.
RECURSIVE fetch_many_cves(_, _, _, _, _, _)
fetch_many_cves(cve_ids, cache_dir, force, answers, writable, acc) ==
    IF cve_ids = <<>> THEN acc
    ELSE LET cve_id == Head(cve_ids)
             cached == load_cached(cve_id, acc.cache)
             fetched == fetch_cve(cve_id, answers)
         IN
         IF ~force /\ is_some(cache_dir) /\ cached.ok
         THEN fetch_many_cves(Tail(cve_ids), cache_dir, force, answers,
                  writable,
                  [acc EXCEPT !.results = MapInsert(@, cve_id, cached)])
         ELSE fetch_many_cves(Tail(cve_ids), cache_dir, force, answers,
                  writable,
                  [results |-> MapInsert(acc.results, cve_id, fetched),
                   cache |-> IF fetched.ok /\ is_some(cache_dir)
                             THEN save_to_cache(cve_id, fetched.value,
                                                acc.cache, writable)
                             ELSE acc.cache,
                   requests |-> Append(acc.requests, cve_id)])

\* lines 76-85: --cache-only
cache_only_results(cve_ids) ==
    [id \in Range(cve_ids) |-> FetchErr("CveNotFound")]

\* (cve_id, config) < (cve_id, config), as tuples of strings compare
PairLess(a, b) ==
    StrLess(a[1], b[1]) \/ (a[1] = b[1] /\ StrLess(a[2], b[2]))

RECURSIVE InsertPair(_, _)
InsertPair(sorted, v) ==
    IF sorted = <<>> THEN <<v>>
    ELSE IF PairLess(v, Head(sorted)) THEN <<v>> \o sorted
    ELSE <<Head(sorted)>> \o InsertPair(Tail(sorted), v)

RECURSIVE SortPairs(_)
SortPairs(seq) ==
    IF seq = <<>> THEN <<>>
    ELSE InsertPair(SortPairs(Tail(seq)), Head(seq))

\* write_config_output: the lines of the file written
write_config_output(cve_config_pairs) ==
    LET sorted_pairs == SortPairs(cve_config_pairs) IN
    [n \in 1..Len(sorted_pairs) |->
        sorted_pairs[n][1] \o " " \o sorted_pairs[n][2]]

CacheDir == "cache"
VexOutDir == "vex_out"
ConfigOutFile == "config_out"

\* the command line when yocto-scan is not running
NoArgs ==
    [yocto_json |-> UnreadableFile, dotconfig |-> None, sbom |-> None,
     vex_out |-> FALSE, config_out |-> FALSE,
     cache_only |-> FALSE, force_refresh |-> FALSE]

IdleScan ==
    [pc |-> "off", remaining_cves |-> <<>>, patched_cves |-> <<>>,
     enabled_symbols |-> None, results |-> <<>>,
     sbom_component_refs |-> <<>>, vex_entries |-> <<>>,
     cve_config_pairs |-> <<>>, ret |-> None]

IdleProc ==
    [pc |-> "idle", files |-> <<>>, union_symbols |-> {},
     is_enabled |-> None, verdict |-> None, ret |-> None]

\* the parallel tasks of the par_iter: one per queued advisory
Queued == 1..Len(scan.remaining_cves)

\* lines 47-61: read the summary, extract the ids; the two HashSets are
\* collected in some iteration order
ScanExtract ==
    /\ scan.pc = "start"
    /\ IF ~args.yocto_json.readable
       THEN scan' = [scan EXCEPT !.pc = "done", !.ret = Some(RetErr("Io"))]
       ELSE LET ids == extract_cve_ids_from_yocto(args.yocto_json.content) IN
            \E remaining \in Orders(ids.cve_ids),
               patched \in Orders(ids.patched_cve_ids) :
               scan' = [scan EXCEPT !.pc = "config",
                                    !.remaining_cves = remaining,
                                    !.patched_cves = patched]
    /\ UNCHANGED <<mk, patterns, trace, args, proc, cache, outfiles, dotcfg, call>>

\* lines 63-70
ScanLoadConfig ==
    /\ scan.pc = "config"
    /\ IF args.dotconfig = None
       THEN scan' = [scan EXCEPT !.pc = "fetch", !.enabled_symbols = None]
       ELSE IF ~unwrap(args.dotconfig).readable
       THEN scan' = [scan EXCEPT !.pc = "done", !.ret = Some(RetErr("Io"))]
       ELSE scan' = [scan EXCEPT
                       !.pc = "fetch",
                       !.enabled_symbols =
                           Some(enabled_set(
                               from_text(unwrap(args.dotconfig).content),
                               TRUE))]
    /\ UNCHANGED <<mk, patterns, trace, args, proc, cache, outfiles, dotcfg, call>>

\* lines 72-93: the endpoint answers each request or does not
ScanFetch ==
    /\ scan.pc = "fetch"
    /\ IF args.cache_only
       THEN /\ scan' = [scan EXCEPT
                          !.pc = "sbom",
                          !.results = cache_only_results(scan.remaining_cves)]
            /\ cache' = cache
       ELSE \E answers \in [Range(scan.remaining_cves) -> BOOLEAN],
               writable \in BOOLEAN :
               LET fetched == fetch_many_cves(scan.remaining_cves,
                                  Some(CacheDir), args.force_refresh, answers,
                                  writable, [NoFetched EXCEPT !.cache = cache])
               IN /\ scan' = [scan EXCEPT !.pc = "sbom",
                                          !.results = fetched.results]
                  /\ cache' = fetched.cache
    /\ UNCHANGED <<mk, patterns, trace, args, proc, outfiles, dotcfg, call>>

\* lines 95-100
ScanLoadSbom ==
    /\ scan.pc = "sbom"
    /\ IF args.sbom = None
       THEN scan' = [scan EXCEPT !.pc = "process",
                                 !.sbom_component_refs = <<>>]
       ELSE LET refs == load_sbom_component_refs(unwrap(args.sbom)) IN
            IF refs.kind = "Err"
            THEN scan' = [scan EXCEPT !.pc = "done", !.ret = Some(refs)]
            ELSE scan' = [scan EXCEPT !.pc = "process",
                                      !.sbom_component_refs = refs.value]
    /\ UNCHANGED <<mk, patterns, trace, args, proc, cache, outfiles, dotcfg, call>>

----------------------------------------------------------------------------
(* process_single_cve_with_configs, as run by task i of the par_iter.      *)

Processed(entry_opt, configs) == [entry |-> entry_opt, configs |-> configs]

\* lines 286-308 and 353-360
ProcStart(i) ==
    /\ scan.pc = "process"
    /\ i \in Queued
    /\ proc[i].pc = "idle"
    /\ LET cve_id == scan.remaining_cves[i]
           cve_result == IF cve_id \in DOMAIN scan.results
                         THEN Some(scan.results[cve_id]) ELSE None
       IN
       IF cve_result = None \/ ~unwrap(cve_result).ok
       THEN proc' = [proc EXCEPT ![i] =
                       [@ EXCEPT !.pc = "done",
                                 !.ret = Some(RetOk(Processed(None, {})))]]
       ELSE
       LET files == extract_program_files_from_cve(unwrap(cve_result).value)
       IN
       IF files = <<>>
       THEN proc' = [proc EXCEPT ![i] =
                [@ EXCEPT
                   !.pc = "done",
                   !.ret = Some(RetOk(Processed(
                       IF scan.sbom_component_refs # <<>>
                       THEN Some(VexEntry(cve_id, "under_investigation",
                                    "No programFiles in CVE record", None,
                                    scan.sbom_component_refs))
                       ELSE None,
                       {})))]]
       ELSE proc' = [proc EXCEPT ![i] =
                       [@ EXCEPT !.pc = "files", !.files = files]]
    /\ UNCHANGED <<mk, patterns, trace, args, scan, cache, outfiles, dotcfg, call>>

\* line 312: the call of trace_kernel_config for the next file
ProcTrace(i) ==
    /\ proc[i].pc = "files"
    /\ proc[i].files # <<>>
    /\ trace' = [trace EXCEPT ![i] = trace_begin(Head(proc[i].files))]
    /\ proc' = [proc EXCEPT ![i] = [@ EXCEPT !.pc = "tracing"]]
    /\ UNCHANGED <<mk, patterns, args, scan, cache, outfiles, dotcfg, call>>

\* lines 312-321: the call returns; `?` on its result
ProcTraceReturn(i) ==
    /\ proc[i].pc = "tracing"
    /\ trace[i].pc = "done"
    /\ LET trace_result == unwrap(trace[i].ret) IN
       IF trace_result.kind # "Ok"
       THEN proc' = [proc EXCEPT ![i] =
                       [@ EXCEPT !.pc = "done", !.ret = Some(trace_result)]]
       ELSE proc' = [proc EXCEPT ![i] =
                [@ EXCEPT
                   !.pc = "files",
                   !.files = Tail(@),
                   !.union_symbols =
                       IF is_some(trace_result.value.error) THEN @
                       ELSE @ \cup trace_result.value.symbols]]
    /\ trace' = [trace EXCEPT ![i] = IdleTrace]
    /\ UNCHANGED <<mk, patterns, args, scan, cache, outfiles, dotcfg, call>>

\* lines 324-331
union_enabled(union_symbols, enabled_symbols) ==
    IF is_some(enabled_symbols)
    THEN union_symbols \cap unwrap(enabled_symbols) # {}
    ELSE FALSE

\* lines 324-351: after the last file; derive_vex_state iterates the union
\* in some order
ProcVerdict(i) ==
    /\ proc[i].pc = "files"
    /\ proc[i].files = <<>>
    /\ LET cve_id == scan.remaining_cves[i]
           union_symbols == proc[i].union_symbols
           enabled == union_enabled(union_symbols, scan.enabled_symbols)
       IN \E symbols_list \in Orders(union_symbols) :
             LET derived == derive_vex_state(enabled, union_symbols,
                                             symbols_list)
             IN proc' = [proc EXCEPT ![i] =
                   [@ EXCEPT
                      !.pc = "done",
                      !.is_enabled = Some(enabled),
                      !.verdict = Some(derived),
                      !.ret = Some(RetOk(Processed(
                          IF scan.sbom_component_refs # <<>>
                          THEN Some(VexEntry(cve_id, derived[1], derived[3],
                                       derived[2], scan.sbom_component_refs))
                          ELSE None,
                          union_symbols)))]]
    /\ UNCHANGED <<mk, patterns, trace, args, scan, cache, outfiles, dotcfg, call>>

----------------------------------------------------------------------------
(* yocto_scan_command after the par_iter.                                  *)

Finished(i) == proc[i].pc = "done"
Failed(i) == Finished(i) /\ unwrap(proc[i].ret).kind # "Ok"

\* lines 125-134: the entries and pairs of the tasks i..Len(remaining_cves)
RECURSIVE CollectEntries(_)
CollectEntries(i) ==
    IF i > Len(scan.remaining_cves) THEN <<>>
    ELSE LET entry_opt == unwrap(proc[i].ret).value.entry IN
         (IF is_some(entry_opt) THEN <<unwrap(entry_opt)>> ELSE <<>>)
         \o CollectEntries(i + 1)

RECURSIVE CollectPairs(_, _)
CollectPairs(i, config_orders) ==
    IF i > Len(scan.remaining_cves) THEN <<>>
    ELSE [n \in 1..Len(config_orders[i]) |->
             <<scan.remaining_cves[i], config_orders[i][n]>>]
         \o CollectPairs(i + 1, config_orders)

\* lines 108-137: collect() of the tasks' results.  A task that has not
\* started when another has failed may never run; a panic in a task
\* resumes in the caller.
ScanCollect ==
    /\ scan.pc = "process"
    /\ \A i \in Queued :
          \/ Finished(i)
          \/ proc[i].pc = "idle" /\ \E j \in Queued : Failed(j)
    /\ IF \E j \in Queued : Failed(j)
       THEN \E j \in Queued :
               /\ Failed(j)
               /\ \A k \in Queued :
                     Failed(k) /\ unwrap(proc[k].ret).kind = "Panic"
                        => unwrap(proc[j].ret).kind = "Panic"
               /\ scan' = [scan EXCEPT !.pc = "done", !.ret = proc[j].ret]
       ELSE \E config_orders \in
                 [Queued -> UNION {Orders(unwrap(proc[i].ret).value.configs) :
                                      i \in Queued}] :
               /\ \A i \in Queued :
                     config_orders[i]
                        \in Orders(unwrap(proc[i].ret).value.configs)
               /\ scan' = [scan EXCEPT
                             !.pc = "write_vex",
                             !.vex_entries = CollectEntries(1),
                             !.cve_config_pairs =
                                 CollectPairs(1, config_orders)]
    /\ UNCHANGED <<mk, patterns, trace, args, proc, cache, outfiles, dotcfg, call>>

\* lines 143-146
ScanWriteVex ==
    /\ scan.pc = "write_vex"
    /\ scan' = [scan EXCEPT !.pc = "write_config"]
    /\ outfiles' = IF args.vex_out
                   THEN [outfiles EXCEPT ![VexOutDir] =
                           write_split_vex_output(@, scan.vex_entries)]
                   ELSE outfiles
    /\ UNCHANGED <<mk, patterns, trace, args, proc, cache, dotcfg, call>>

\* lines 148-153
ScanWriteConfig ==
    /\ scan.pc = "write_config"
    /\ scan' = [scan EXCEPT !.pc = "done", !.ret = Some(RetOk("unit"))]
    /\ outfiles' = IF args.config_out
                   THEN [outfiles EXCEPT ![ConfigOutFile] =
                           Some(write_config_output(scan.cve_config_pairs))]
                   ELSE outfiles
    /\ UNCHANGED <<mk, patterns, trace, args, proc, cache, dotcfg, call>>

----------------------------------------------------------------------------
(* DotConfig::from_text, line by line.                                     *)

\* the most lines a .config text holds
MaxConfigLines == 3

ConfigLinePool ==
    { "CONFIG_X=y", "# CONFIG_X is not set", "CONFIG_X=m", "CONFIG_Y=n",
      "  CONFIG_Y=y ", "", "# a comment", "CONFIG_Z" }

ConfigTexts ==
    UNION {[1..n -> ConfigLinePool] : n \in 0..MaxConfigLines}

IdleDotcfg == [pc |-> "off", text |-> <<>>, pos |-> 1, values |-> <<>>]

\* lines 20-43: one iteration of the for loop
FromTextLine ==
    /\ dotcfg.pc = "lines"
    /\ dotcfg.pos <= Len(dotcfg.text)
    /\ dotcfg' = [dotcfg EXCEPT
                    !.pos = @ + 1,
                    !.values = from_text_line(@, dotcfg.text[dotcfg.pos])]
    /\ UNCHANGED <<mk, patterns, trace, pipeVars, call>>

\* line 45
FromTextReturn ==
    /\ dotcfg.pc = "lines"
    /\ dotcfg.pos > Len(dotcfg.text)
    /\ dotcfg' = [dotcfg EXCEPT !.pc = "done"]
    /\ UNCHANGED <<mk, patterns, trace, pipeVars, call>>

\* the symbols a caller asks about: recorded ones and one never recorded
QuerySymbols == {"CONFIG_X", "CONFIG_Y", "CONFIG_Z", "CONFIG_W"}

\* lines 48-57: is_enabled called on the parsed DotConfig
CallIsEnabled ==
    /\ dotcfg.pc = "done"
    /\ \E symbol \in QuerySymbols, include_modules \in BOOLEAN :
          call' = [op |-> "is_enabled", symbol |-> symbol,
                   include_modules |-> include_modules,
                   ret |-> is_enabled(dotcfg.values, symbol, include_modules)]
    /\ UNCHANGED <<mk, patterns, trace, pipeVars, dotcfg>>

\* lines 59-68: enabled_set called on the parsed DotConfig
CallEnabledSet ==
    /\ dotcfg.pc = "done"
    /\ \E include_modules \in BOOLEAN :
          call' = [op |-> "enabled_set", include_modules |-> include_modules,
                   ret |-> enabled_set(dotcfg.values, include_modules)]
    /\ UNCHANGED <<mk, patterns, trace, pipeVars, dotcfg>>

----------------------------------------------------------------------------
(* The specifications.                                                     *)

\* nothing written yet: an empty output directory, no config-pair file
NoOutfiles == [f \in {VexOutDir, ConfigOutFile} |->
                 IF f = VexOutDir THEN <<>> ELSE None]

NoCall == [op |-> "none"]

\* the rel_file arguments of a direct call
TraceFiles ==
    { "drivers/sub/m.c", " ./drivers/sub/m.c ", "nonexistent/x.c",
      "./nonexistent/x.c", "drivers/sub/m.h", "drivers/sub", "..",
      "drivers/../drivers/sub/m.c", "../k/drivers/sub/m.c" }

Trees ==
    {t \in [MakefileDirs -> UNION {MakefilesIn(d) : d \in MakefileDirs}] :
        \A d \in MakefileDirs : t[d] \in MakefilesIn(d)}

\* trace_kernel_config called directly, as the tests and trace_command do
CallTrace(w) ==
    /\ scan.pc = "off"
    /\ trace[w].pc = "idle"
    /\ \E rel_file \in TraceFiles :
          trace' = [trace EXCEPT ![w] = trace_begin(rel_file)]
    /\ UNCHANGED <<mk, patterns, pipeVars, dotcfg, call>>

InitTrace ==
    /\ mk \in Trees
    /\ patterns = None
    /\ trace = [w \in Tasks |-> IdleTrace]
    /\ args = NoArgs
    /\ scan = IdleScan
    /\ proc = [i \in Tasks |-> IdleProc]
    /\ cache = <<>>
    /\ outfiles = NoOutfiles
    /\ dotcfg = IdleDotcfg
    /\ call = NoCall

NextTrace ==
    \/ CallTrace(1)
    \/ \E w \in Tasks : TraceLoop(w)
    \/ \E w \in Tasks : TraceItem(w)

SpecTrace == InitTrace /\ [][NextTrace]_vars

InitConfig ==
    /\ mk = [d \in MakefileDirs |-> NoMakefile]
    /\ patterns = None
    /\ trace = [w \in Tasks |-> IdleTrace]
    /\ args = NoArgs
    /\ scan = IdleScan
    /\ proc = [i \in Tasks |-> IdleProc]
    /\ cache = <<>>
    /\ outfiles = NoOutfiles
    /\ \E text \in ConfigTexts : dotcfg = [IdleDotcfg EXCEPT !.pc = "lines",
                                                            !.text = text]
    /\ call = NoCall

NextConfig ==
    FromTextLine \/ FromTextReturn \/ CallIsEnabled \/ CallEnabledSet

SpecConfig == InitConfig /\ [][NextConfig]_vars

\* the command lines explored: every summary, tree, .config and SBOM
\* presence with both outputs requested; each other option on its own
ScanArgs ==
    {a \in [yocto_json : {File(y) : y \in Summaries} \cup {UnreadableFile},
            dotconfig : {None, Some(UnreadableFile)}
                        \cup {Some(File(t)) : t \in DotConfigTexts},
            sbom : {None} \cup {Some(File(b)) : b \in Sboms},
            vex_out : BOOLEAN, config_out : BOOLEAN,
            cache_only : BOOLEAN, force_refresh : BOOLEAN] :
        LET common ==
              /\ a.yocto_json.readable
              /\ a.dotconfig # Some(UnreadableFile)
              /\ a.sbom \in {None, Some(File(CHOOSE b \in Sboms :
                                            b.components # <<>>))}
            plain == /\ a.vex_out /\ a.config_out
                     /\ ~a.cache_only /\ ~a.force_refresh
        IN \/ common /\ plain
           \/ /\ a.yocto_json \in {UnreadableFile,
                    File(CHOOSE y \in Summaries : Len(y) = 1)}
              /\ a.dotconfig \in {None, Some(UnreadableFile)}
              /\ ~a.force_refresh
              /\ a.vex_out = a.config_out}

\* the cache directory when the command starts: empty, or holding the
\* advisory an earlier run fetched
Caches == {<<>>, [id \in {"CVE-1"} |-> to_string_pretty(Endpoint[id])]}

InitScan ==
    /\ mk \in ScanTrees
    /\ patterns = None
    /\ trace = [w \in Tasks |-> IdleTrace]
    /\ args \in ScanArgs
    /\ scan = [IdleScan EXCEPT !.pc = "start"]
    /\ proc = [i \in Tasks |-> IdleProc]
    /\ cache \in Caches
    /\ outfiles = NoOutfiles
    /\ dotcfg = IdleDotcfg
    /\ call = NoCall

NextScan ==
    \/ ScanExtract
    \/ ScanLoadConfig
    \/ ScanFetch
    \/ ScanLoadSbom
    \/ \E i \in Tasks : ProcStart(i)
    \/ \E i \in Tasks : ProcTrace(i)
    \/ \E i \in Tasks : TraceLoop(i)
    \/ \E i \in Tasks : TraceItem(i)
    \/ \E i \in Tasks : ProcTraceReturn(i)
    \/ \E i \in Tasks : ProcVerdict(i)
    \/ ScanCollect
    \/ ScanWriteVex
    \/ ScanWriteConfig

SpecScan == InitScan /\ [][NextScan]_vars

\* the most symbols in a union handed to derive_vex_state directly
MaxUnion == 3

SymbolPool ==
    {"CONFIG_FOO", "CONFIG_X", "CONFIG_Q", "CONFIG_P", "CONFIG_T"}

\* derive_vex_state called directly, the union iterated in some order
DeriveVexState ==
    /\ call.op = "derive_vex_state"
    /\ call.out = None
    /\ \E symbols_list \in Orders(call.union_symbols) :
          call' = [call EXCEPT
                     !.out = Some(derive_vex_state(call.enabled,
                                      call.union_symbols, symbols_list))]
    /\ UNCHANGED <<mk, patterns, trace, pipeVars, dotcfg>>

InitVerdict ==
    /\ mk = [d \in MakefileDirs |-> NoMakefile]
    /\ patterns = None
    /\ trace = [w \in Tasks |-> IdleTrace]
    /\ args = NoArgs
    /\ scan = IdleScan
    /\ proc = [i \in Tasks |-> IdleProc]
    /\ cache = <<>>
    /\ outfiles = NoOutfiles
    /\ dotcfg = IdleDotcfg
    /\ \E enabled \in BOOLEAN,
          union_symbols \in {u \in SUBSET SymbolPool :
                                Cardinality(u) <= MaxUnion} :
          call = [op |-> "derive_vex_state", enabled |-> enabled,
                  union_symbols |-> union_symbols, out |-> None]

NextVerdict == DeriveVexState

SpecVerdict == InitVerdict /\ [][NextVerdict]_vars

\* the most entries handed to build_vex directly
MaxEntries == 2

\* the entries a caller of build_vex supplies, as the tests build them with
\* VexEntry::new: any state with or without a justification
EntryPool ==
    {VexEntry(cve_id, state, "detail", justification, <<"linux-kernel">>) :
        cve_id \in {"CVE-1", "CVE-2"}, state \in VexStates,
        justification \in {None, Some("vulnerable_code_not_present")}}

\* build_vex called directly
BuildVex ==
    /\ call.op = "build_vex"
    /\ call.out = None
    /\ call' = [call EXCEPT !.out = Some(build_vex(call.entries))]
    /\ UNCHANGED <<mk, patterns, trace, pipeVars, dotcfg>>

InitVex ==
    /\ mk = [d \in MakefileDirs |-> NoMakefile]
    /\ patterns = None
    /\ trace = [w \in Tasks |-> IdleTrace]
    /\ args = NoArgs
    /\ scan = IdleScan
    /\ proc = [i \in Tasks |-> IdleProc]
    /\ cache = <<>>
    /\ outfiles = NoOutfiles
    /\ dotcfg = IdleDotcfg
    /\ \E entries \in UNION {[1..n -> EntryPool] : n \in 0..MaxEntries} :
          call = [op |-> "build_vex", entries |-> entries, out |-> None]

NextVex == BuildVex

SpecVex == InitVex /\ [][NextVex]_vars

----------------------------------------------------------------------------
(* Traces of trees whose containers include one another, run to the end.   *)

\* lines of drivers/sub/Makefile with mutually recursive containers
CyclePool == << "a-objs := m.o b.o",
                "b-objs := a.o",
                "a-objs := b.o c.o",
                "c-objs := a.o b.o",
                "obj-$(CONFIG_A) += a.o" >>

\* the cycle continued in the parent directory
CycleDrivers == <<"a-objs := sub/m.o b.o", "b-objs := a.o">>

CycleTrees ==
    {Tree(sub, drivers) :
        sub \in MakefilesFrom(CyclePool),
        drivers \in {NoMakefile, MakefileOf(CycleDrivers)}}

InitCycle ==
    /\ mk \in CycleTrees
    /\ patterns = None
    /\ trace = [w \in Tasks |-> IdleTrace]
    /\ args = NoArgs
    /\ scan = IdleScan
    /\ proc = [i \in Tasks |-> IdleProc]
    /\ cache = <<>>
    /\ outfiles = NoOutfiles
    /\ dotcfg = IdleDotcfg
    /\ call = NoCall

SpecCycle == InitCycle /\ [][NextTrace]_vars

----------------------------------------------------------------------------
(* The same file traced twice, one call after or beside the other, as the  *)
(* worker threads of the par_iter call trace_kernel_config.                *)

\* a worker calls trace_kernel_config for the file the other worker traces
CallTraceAgain(w) ==
    /\ scan.pc = "off"
    /\ trace[w].pc = "idle"
    /\ \E rel_file \in TraceFiles :
          /\ \A v \in Tasks \ {w} :
                trace[v].pc # "idle" => trace[v].file = rel_file
          /\ trace' = [trace EXCEPT ![w] = trace_begin(rel_file)]
    /\ UNCHANGED <<mk, patterns, pipeVars, dotcfg, call>>

InitTwice ==
    /\ mk \in CycleTrees \cup ScanTrees
    /\ patterns = None
    /\ trace = [w \in Tasks |-> IdleTrace]
    /\ args = NoArgs
    /\ scan = IdleScan
    /\ proc = [i \in Tasks |-> IdleProc]
    /\ cache = <<>>
    /\ outfiles = NoOutfiles
    /\ dotcfg = IdleDotcfg
    /\ call = NoCall

\* the first call and the second
Twice == {1, 2}

NextTwice ==
    \/ \E w \in Twice : CallTraceAgain(w)
    \/ \E w \in Twice : TraceLoop(w)
    \/ \E w \in Twice : TraceItem(w)

SpecTwice == InitTwice /\ [][NextTwice]_vars


----------------------------------------------------------------------------
(* A file traced, a Makefile added to a directory that had none, and the   *)
(* file traced again.                                                      *)

\* lines of drivers/Makefile: a container over sub/m.o and its gate
GrowDriversPool == << "top-objs := sub/m.o",
                      "obj-$(CONFIG_T) += top.o",
                      "obj-$(CONFIG_Q) += sub/m.o" >>

\* lines of the Makefile added to a directory
GrowAddedPool == << "top-objs := m.o",
                    "obj-$(CONFIG_FOO) += m.o",
                    "obj-$(CONFIG_P) += sub/" >>

\* the Makefiles that can be read, of up to MaxLines lines of the pool
ReadableFrom(pool) == {m \in MakefilesFrom(pool) : m.readable}

GrowTrees ==
    {Tree(NoMakefile, drivers) :
        drivers \in {NoMakefile} \cup ReadableFrom(GrowDriversPool)}

\* a Makefile is written into a directory that had none, after the first
\* trace returned
AddMakefile ==
    /\ trace[1].pc = "done"
    /\ call = NoCall
    /\ \E d \in {SubDir, DriversDir} :
          /\ ~mk[d].exists
          /\ \E added \in ReadableFrom(GrowAddedPool) \ {MakefileOf(<<>>)} :
                mk' = [mk EXCEPT ![d] = added]
          /\ call' = [op |-> "add_makefile", directory |-> d]
    /\ UNCHANGED <<trace, patterns, pipeVars, dotcfg>>

\* the same file is traced again on the tree with the added Makefile
CallTraceAfterAdd ==
    /\ call.op = "add_makefile"
    /\ trace[2].pc = "idle"
    /\ trace' = [trace EXCEPT ![2] = trace_begin(trace[1].file)]
    /\ UNCHANGED <<mk, patterns, pipeVars, dotcfg, call>>

InitGrow ==
    /\ mk \in GrowTrees
    /\ patterns = None
    /\ trace = [w \in Tasks |-> IdleTrace]
    /\ args = NoArgs
    /\ scan = IdleScan
    /\ proc = [i \in Tasks |-> IdleProc]
    /\ cache = <<>>
    /\ outfiles = NoOutfiles
    /\ dotcfg = IdleDotcfg
    /\ call = NoCall

NextGrow ==
    \/ CallTrace(1)
    \/ AddMakefile
    \/ CallTraceAfterAdd
    \/ \E w \in Twice : TraceLoop(w)
    \/ \E w \in Twice : TraceItem(w)

SpecGrow == InitGrow /\ [][NextGrow]_vars


----------------------------------------------------------------------------
(* Direct calls of scan_makefile_for_targets on one Makefile.              *)

\* the physical lines of the scanned Makefile
MatchPool == << "obj-$(CONFIG_FOO) += m.o",
                "xdrv-objs := m.o b.o",
                "obj-$(CONFIG_P) += sub/",
                "obj-$(CONFIG_Q) += sub/m.o",
                "obj-$(CONFIG_G) += driver.o",
                "obj-y += driver.o",
                "obj-$(CONFIG_D) += complex-driver.o",
                "obj-$(CONFIG_E) += other/driver.o",
                "obj-$(CONFIG_F) += driver.o.cmd",
                "c-objs-$(CONFIG_BAZ) += driver.o",
                "obj-$(CONFIG_H) += driver_x.o xdriver.o" >>

\* the most lines the scanned Makefile holds
MaxMatchLines == 2

MatchMakefiles ==
    {NoMakefile, UnreadableMakefile}
    \cup {MakefileOf(Pick(MatchPool, S, 1)) :
            S \in {T \in SUBSET (1..Len(MatchPool)) :
                      Cardinality(T) <= MaxMatchLines}}

MatchTargets == {"m.o", "sub/m.o", "driver.o", "x.o"}
MatchHints   == {None, Some("sub"), Some("net")}

\* scan_makefile_for_targets(makefile_path, target, subdir) called alone
ScanMakefile ==
    /\ call.op = "scan_makefile_for_targets"
    /\ call.out = None
    /\ call' = [call EXCEPT !.out =
                   Some(scan_makefile_for_targets(call.makefile, call.target,
                                                  call.subdir))]
    /\ patterns' = get_or_init(patterns, call.makefile.readable)
    /\ UNCHANGED <<mk, trace, args, scan, proc, cache, outfiles, dotcfg>>

InitMatch ==
    /\ mk = [d \in MakefileDirs |-> NoMakefile]
    /\ patterns = None
    /\ trace = [w \in Tasks |-> IdleTrace]
    /\ args = NoArgs
    /\ scan = IdleScan
    /\ proc = [i \in Tasks |-> IdleProc]
    /\ cache = <<>>
    /\ outfiles = NoOutfiles
    /\ dotcfg = IdleDotcfg
    /\ \E makefile \in MatchMakefiles, target \in MatchTargets,
          subdir \in MatchHints :
          call = [op |-> "scan_makefile_for_targets", makefile |-> makefile,
                  target |-> target, subdir |-> subdir, out |-> None]

NextMatch == ScanMakefile

SpecMatch == InitMatch /\ [][NextMatch]_vars


----------------------------------------------------------------------------
(* Direct calls of read_makefile_lines on one file.                        *)

\* read_makefile_lines_no_cache(path): lines 260-262, 264 and 297
read_makefile_lines_of(makefile) ==
    IF ~makefile.exists THEN RetOk(<<>>)
    ELSE IF ~makefile.readable THEN RetErr("Io")
    ELSE RetOk(read_makefile_lines_no_cache(makefile.raw))

\* the physical lines of the file read
RawPool == << "xdrv-objs := a.o \\",
              "\tm.o  b.o",
              "obj-y  +=\tm.o \\  ",
              "",
              "  ",
              "c.o\\\\",
              "\\",
              "obj-$(CONFIG_FOO) += m.o" >>

\* the most physical lines the file holds
MaxRawLines == 3

RawFiles ==
    {NoMakefile, UnreadableMakefile}
    \cup {MakefileOf([i \in 1..Len(pick) |-> RawPool[pick[i]]]) :
            pick \in UNION {[1..n -> 1..Len(RawPool)] : n \in 0..MaxRawLines}}

ReadMakefile ==
    /\ call.op = "read_makefile_lines"
    /\ call.out = None
    /\ call' = [call EXCEPT !.out = Some(read_makefile_lines_of(call.makefile))]
    /\ patterns' = get_or_init(patterns, call.makefile.readable)
    /\ UNCHANGED <<mk, trace, args, scan, proc, cache, outfiles, dotcfg>>

InitRead ==
    /\ mk = [d \in MakefileDirs |-> NoMakefile]
    /\ patterns = None
    /\ trace = [w \in Tasks |-> IdleTrace]
    /\ args = NoArgs
    /\ scan = IdleScan
    /\ proc = [i \in Tasks |-> IdleProc]
    /\ cache = <<>>
    /\ outfiles = NoOutfiles
    /\ dotcfg = IdleDotcfg
    /\ \E makefile \in RawFiles :
          call = [op |-> "read_makefile_lines", makefile |-> makefile,
                  out |-> None]

NextRead == ReadMakefile

SpecRead == InitRead /\ [][NextRead]_vars


----------------------------------------------------------------------------
(* Calls of fetch_many_cves, one after the other on one cache directory.   *)

FetchIds == {"CVE-1", "CVE-2"}

\* the most ids one call asks for
MaxFetchIds == 2

FetchLists == UNION {[1..n -> FetchIds] : n \in 0..MaxFetchIds}

\* what the file of an advisory may hold before the first call: the
\* document of the endpoint, another document, or a text cut short
CachedTexts(id) ==
    {to_string_pretty(Endpoint[id]), "[[\"old.c\"]]", "[[\"old.c\"]"}

\* the cache directory before the first call
FetchCaches ==
    {<<>>} \cup {[id \in {"CVE-1"} |-> text] : text \in CachedTexts("CVE-1")}

NoFetchCall ==
    [cve_ids |-> <<>>, cache_dir |-> None, force |-> FALSE, answers |-> <<>>,
     writable |-> FALSE, before |-> <<>>, results |-> <<>>, requests |-> <<>>]

FetchRounds == {0, 1}

\* fetcher.fetch_many_cves(&cve_ids, show_progress, cache_dir, force)
FetchMany ==
    /\ call.op = "fetch_many_cves"
    /\ call.round \in FetchRounds
    /\ \E cve_ids \in FetchLists, cache_dir \in {None, Some(CacheDir)},
          force \in BOOLEAN, writable \in BOOLEAN :
          \E answers \in [Range(cve_ids) -> BOOLEAN] :
             LET fetched == fetch_many_cves(cve_ids, cache_dir, force, answers,
                               writable, [NoFetched EXCEPT !.cache = cache])
             IN /\ cache' = fetched.cache
                /\ call' = [op |-> "fetch_many_cves",
                            round |-> call.round + 1,
                            prev |-> call.last,
                            last |-> [cve_ids |-> cve_ids,
                                      cache_dir |-> cache_dir,
                                      force |-> force, answers |-> answers,
                                      writable |-> writable,
                                      before |-> cache,
                                      results |-> fetched.results,
                                      requests |-> fetched.requests]]
    /\ UNCHANGED <<mk, patterns, trace, args, scan, proc, outfiles, dotcfg>>

InitFetch ==
    /\ mk = [d \in MakefileDirs |-> NoMakefile]
    /\ patterns = None
    /\ trace = [w \in Tasks |-> IdleTrace]
    /\ args = NoArgs
    /\ scan = IdleScan
    /\ proc = [i \in Tasks |-> IdleProc]
    /\ cache \in FetchCaches
    /\ outfiles = NoOutfiles
    /\ dotcfg = IdleDotcfg
    /\ call = [op |-> "fetch_many_cves", round |-> 0,
               prev |-> NoFetchCall, last |-> NoFetchCall]

NextFetch == FetchMany

SpecFetch == InitFetch /\ [][NextFetch]_vars


----------------------------------------------------------------------------
(* Calls of write_split_vex_output, one after the other on one directory.  *)

ShardEntries ==
    {VexEntry(cve_id, state, "detail", None, <<"linux-kernel">>) :
        cve_id \in {"CVE-1", "CVE-2"}, state \in VexStates}

WriteRounds == {0, 1}

\* write_split_vex_output(vex_entries, vex_out) returning Ok
WriteSplit ==
    /\ call.op = "write_split_vex_output"
    /\ call.round \in WriteRounds
    /\ \E vex_entries \in UNION {[1..n -> ShardEntries] : n \in 0..MaxEntries} :
          /\ outfiles' = [outfiles EXCEPT ![VexOutDir] =
                            write_split_vex_output(@, vex_entries)]
          /\ call' = [op |-> "write_split_vex_output",
                      round |-> call.round + 1,
                      vex_entries |-> vex_entries]
    /\ UNCHANGED <<mk, patterns, trace, args, scan, proc, cache, dotcfg>>

InitShards ==
    /\ mk = [d \in MakefileDirs |-> NoMakefile]
    /\ patterns = None
    /\ trace = [w \in Tasks |-> IdleTrace]
    /\ args = NoArgs
    /\ scan = IdleScan
    /\ proc = [i \in Tasks |-> IdleProc]
    /\ cache = <<>>
    /\ outfiles = NoOutfiles
    /\ dotcfg = IdleDotcfg
    /\ call = [op |-> "write_split_vex_output", round |-> 0,
               vex_entries |-> <<>>]

NextShards == WriteSplit

SpecShards == InitShards /\ [][NextShards]_vars

----------------------------------------------------------------------------
(* Properties.                                                             *)

\* worker w's call has returned a TraceResult
Returned(w) ==
    /\ trace[w].pc = "done"
    /\ unwrap(trace[w].ret).kind = "Ok"

ResultOf(w) == unwrap(trace[w].ret).value

\* the path a rel_file argument names
Named(rel_file) ==
    Resolve(join(SrcRoot, trim_start_matches(trim(rel_file), "./")), <<>>)

\* the Makefile of d can be read, or d has none
Sound(d) == mk[d].exists => mk[d].readable

\* the physical lines of d's Makefile
LinesOf(d) == Range(mk[d].raw)

HasEdge(w, src, dst, via) ==
    \E n \in 1..Len(ResultOf(w).edges) :
       ResultOf(w).edges[n] = TraceEdge(src, dst, via)

\* C1: when the traced file lies in drivers/sub, drivers/Makefile holds the
\* line `obj-$(CONFIG_P) += sub/`, drivers/sub/Makefile holds `obj-y += m.o`
\* and no Makefile line names the object path sub/m.o, the trace puts
\* CONFIG_P in symbols and emits an edge to CONFIG:CONFIG_P with via
\* "parent directory gate".
C1_DirectoryGate ==
    \A w \in Tasks :
       ( /\ Returned(w)
         /\ Named(trace[w].file) = SubDir \o <<"m.c">>
         /\ Sound(DriversDir) /\ Sound(SubDir)
         /\ "obj-y += m.o" \in LinesOf(SubDir)
         /\ "obj-$(CONFIG_P) += sub/" \in LinesOf(DriversDir)
         /\ \A d \in MakefileDirs :
               \A line \in LinesOf(d) : ~Contains(line, "sub/m.o") )
       => /\ "CONFIG_P" \in ResultOf(w).symbols
          /\ \E n \in 1..Len(ResultOf(w).edges) :
                /\ ResultOf(w).edges[n].dst = "CONFIG:CONFIG_P"
                /\ ResultOf(w).edges[n].via = "parent directory gate"

\* C2: composite objects are followed transitively.  With `xdrv-objs := m.o
\* b.o` and `obj-$(CONFIG_X) += xdrv.o` in the file's directory Makefile,
\* tracing m.c yields xdrv.o in objects, CONFIG_X in symbols and the edge
\* m.o@dir -> xdrv.o@dir via "container includes target"; and the same holds
\* through a chain of containers in that Makefile: with `xdrv-objs := m.o
\* b.o`, `top-objs := xdrv.o` and `obj-$(CONFIG_T) += top.o` it yields
\* xdrv.o and top.o, CONFIG_T, and the edges m.o@dir -> xdrv.o@dir and
\* xdrv.o@dir -> top.o@dir.
C2_CompositeChain ==
    \A w \in Tasks :
       ( /\ Returned(w)
         /\ Named(trace[w].file) = SubDir \o <<"m.c">>
         /\ "xdrv-objs := m.o b.o" \in LinesOf(SubDir) )
       => /\ "obj-$(CONFIG_X) += xdrv.o" \in LinesOf(SubDir)
             => /\ "xdrv.o" \in ResultOf(w).objects
                /\ "CONFIG_X" \in ResultOf(w).symbols
                /\ HasEdge(w, "m.o@" \o PathStr(SubDir),
                           "xdrv.o@" \o PathStr(SubDir),
                           "container includes target")
          /\ ( /\ "top-objs := xdrv.o" \in LinesOf(SubDir)
               /\ "obj-$(CONFIG_T) += top.o" \in LinesOf(SubDir) )
             => /\ {"xdrv.o", "top.o"} \subseteq ResultOf(w).objects
                /\ "CONFIG_T" \in ResultOf(w).symbols
                /\ HasEdge(w, "m.o@" \o PathStr(SubDir),
                           "xdrv.o@" \o PathStr(SubDir),
                           "container includes target")
                /\ HasEdge(w, "xdrv.o@" \o PathStr(SubDir),
                           "top.o@" \o PathStr(SubDir),
                           "container includes target")

\* C3: plain obj rule.  For the existing file drivers/sub/m.c whose
\* directory Makefile holds `obj-$(CONFIG_FOO) += m.o`, where no other line
\* of a scanned Makefile names m.o or gates its directory, the trace returns
\* error = None, objects containing m.o, and symbols exactly {CONFIG_FOO}.
C3_PlainObjRule ==
    \A w \in Tasks :
       ( /\ trace[w].pc = "done"
         /\ Named(trace[w].file) = SubDir \o <<"m.c">>
         /\ Sound(SubDir) /\ Sound(DriversDir)
         /\ "obj-$(CONFIG_FOO) += m.o" \in LinesOf(SubDir)
         /\ \A line \in LinesOf(SubDir) \ {"obj-$(CONFIG_FOO) += m.o"} :
               ~Contains(line, "m.o")
         /\ \A line \in LinesOf(DriversDir) :
               ~Contains(line, "m.o") /\ ~Contains(line, "sub/") )
       => /\ Returned(w)
          /\ ResultOf(w).error = None
          /\ "m.o" \in ResultOf(w).objects
          /\ ResultOf(w).symbols = {"CONFIG_FOO"}

\* the path names nothing in the source tree
Missing(path) ==
    /\ path \notin Directories
    /\ path \notin SourceFiles
    /\ \A d \in MakefileDirs : path # d \o <<"Makefile">>

\* C4: when the path obtained by joining the source root with rel_file
\* (leading ./ stripped) does not exist, the call returns Ok with error =
\* Some(message containing "File not found"), empty objects, symbols and
\* edges, and no Makefile has been read.
C4_MissingFile ==
    \A w \in Tasks :
       (trace[w].pc = "done" /\ Missing(Named(trace[w].file)))
       => /\ Returned(w)
          /\ is_some(ResultOf(w).error)
          /\ Contains(unwrap(ResultOf(w).error), "File not found")
          /\ ResultOf(w).objects = {}
          /\ ResultOf(w).symbols = {}
          /\ ResultOf(w).edges = <<>>
          /\ trace[w].scanned = <<>>

\* a call for a missing file written with a leading ./ has returned
C4_Witness ==
    \E w \in Tasks :
       /\ trace[w].pc = "done"
       /\ trace[w].file = "./nonexistent/x.c"
       /\ Missing(Named(trace[w].file))
       /\ Returned(w)

\* C5: the tracer never fails.  Every call returns a TraceResult, never an
\* Err and never a panic, and when the resolved file exists the result has
\* error = None, also when a Makefile on the scanned path cannot be read.
C5_TracerNeverFails ==
    \A w \in Tasks :
       trace[w].pc = "done"
       => /\ Returned(w)
          /\ ~Missing(Named(trace[w].file)) => ResultOf(w).error = None

\* C6: a failure while tracing one advisory's file does not abort the
\* batch.  When the command has ended and some task's trace failed, the
\* command returned Ok, every other queued advisory was processed to its
\* end, and the outputs asked for were written.
C6_TraceFailureKeepsBatch ==
    ( /\ scan.pc = "done"
      /\ \E i \in Queued : Failed(i) )
    => /\ unwrap(scan.ret).kind = "Ok"
       /\ \A j \in Queued : Finished(j)
       /\ args.config_out => is_some(outfiles[ConfigOutFile])

\* C7: derive_vex_state follows the table.  An empty union gives
\* under_investigation without justification whatever is_enabled is; a
\* non-empty union gives affected without justification and a detail that
\* starts "Enabled symbols: " when is_enabled, and not_affected with
\* justification code_not_reachable otherwise; a justification is present
\* iff the state is not_affected.
C7_VerdictTable ==
    (call.op = "derive_vex_state" /\ is_some(call.out))
    => LET state == unwrap(call.out)[1]
           justification == unwrap(call.out)[2]
           detail == unwrap(call.out)[3]
       IN /\ state \in VexStates
          /\ call.union_symbols = {}
             => state = "under_investigation" /\ justification = None
          /\ (call.union_symbols # {} /\ call.enabled)
             => /\ state = "affected"
                /\ justification = None
                /\ HasAt(detail, 1, "Enabled symbols: ")
          /\ (call.union_symbols # {} /\ ~call.enabled)
             => /\ state = "not_affected"
                /\ justification = Some("code_not_reachable")
          /\ is_some(justification) <=> state = "not_affected"

\* a union of two symbols, not enabled, has been given its verdict
C7_Witness ==
    /\ call.op = "derive_vex_state"
    /\ is_some(call.out)
    /\ Cardinality(call.union_symbols) = 2
    /\ ~call.enabled
    /\ unwrap(call.out)[1] = "not_affected"

\* what one line of a .config says of symbol: `symbol=<value>` gives the
\* value, `# symbol is not set` gives n, any other line nothing
LineValue(raw_line, symbol) ==
    LET line == trim(raw_line) IN
    IF HasAt(line, 1, symbol \o "=")
    THEN Some(SubSeq(line, Len(symbol) + 2, Len(line)))
    ELSE IF line = "# " \o symbol \o " is not set" THEN Some("n")
    ELSE None

\* the symbol has value y or m in the .config the command line names: the
\* last line of the text that says something of it gives y or m
SetInConfig(symbol) ==
    /\ args.dotconfig # None
    /\ LET text == unwrap(args.dotconfig).content
           said == {n \in 1..Len(text) : LineValue(text[n], symbol) # None}
       IN /\ said # {}
          /\ unwrap(LineValue(text[Max(said)], symbol)) \in {"y", "m"}

\* C8: is_enabled handed to the verdict deriver is true iff some symbol of
\* the advisory's union has value y or m in the supplied .config; without a
\* .config it is false, so an advisory with a non-empty union gets
\* not_affected and none gets affected.
C8_EnabledIffConfigured ==
    \A i \in Queued :
       is_some(proc[i].verdict)
       => /\ unwrap(proc[i].is_enabled)
             <=> \E s \in proc[i].union_symbols : SetInConfig(s)
          /\ args.dotconfig = None
             => /\ ~unwrap(proc[i].is_enabled)
                /\ unwrap(proc[i].verdict)[1] # "affected"
                /\ proc[i].union_symbols # {}
                   => unwrap(proc[i].verdict)[1] = "not_affected"

\* the vulnerabilities for cve_id in the files of the VEX output directory
VexEntriesFor(cve_id) ==
    {<<f, n>> \in UNION {{f} \X (1..Len(outfiles[VexOutDir][f])) :
                            f \in DOMAIN outfiles[VexOutDir]} :
        outfiles[VexOutDir][f][n].id = cve_id}

\* C9: every advisory queued for tracing whose record was retrieved yields
\* exactly one verdict entry in the VEX output, with state affected,
\* not_affected or under_investigation, whether or not an SBOM was given.
C9_OneVerdictPerAdvisory ==
    ( /\ scan.pc = "done"
      /\ unwrap(scan.ret).kind = "Ok"
      /\ args.vex_out )
    => \A i \in Queued :
          scan.results[scan.remaining_cves[i]].ok
          => /\ Cardinality(VexEntriesFor(scan.remaining_cves[i])) = 1
             /\ \A e \in VexEntriesFor(scan.remaining_cves[i]) :
                   outfiles[VexOutDir][e[1]][e[2]].analysis.state \in VexStates

\* C10: every line `# CONFIG_X is not set` records n for CONFIG_X, replacing
\* what an earlier line recorded; so once `CONFIG_X=y` and later `# CONFIG_X
\* is not set` are read, with no line for CONFIG_X after it, CONFIG_X is
\* not enabled and not in the enabled set.
C10_NotSetRecordsN ==
    ( /\ dotcfg.pc \in {"lines", "done"}
      /\ dotcfg.pos > 1
      /\ dotcfg.text[dotcfg.pos - 1] = "# CONFIG_X is not set" )
    => /\ "CONFIG_X" \in DOMAIN dotcfg.values
       /\ dotcfg.values["CONFIG_X"] = "n"
       /\ \A include_modules \in BOOLEAN :
             /\ ~is_enabled(dotcfg.values, "CONFIG_X", include_modules)
             /\ "CONFIG_X" \notin enabled_set(dotcfg.values, include_modules)

\* the value the parsed DotConfig records for symbol, if any
Recorded(symbol) ==
    IF symbol \in DOMAIN dotcfg.values THEN Some(dotcfg.values[symbol])
    ELSE None

\* symbol is y, or is m and modules are asked for, in the parsed DotConfig
EnabledBy(symbol, include_modules) ==
    \/ Recorded(symbol) = Some("y")
    \/ Recorded(symbol) = Some("m") /\ include_modules

C12_JustificationOnlyNotAffected ==
    call.op = "build_vex" /\ is_some(call.out)
    => \A n \in 1..Len(call.entries) :
          is_some(unwrap(call.out)[n].analysis.justification)
          => /\ is_some(call.entries[n].justification)
             /\ call.entries[n].state = "not_affected"

\* C13: with --cache-only the advisory data comes from the cache alone: a
\* queued advisory whose JSON is in the cache directory is loaded from it
\* (and so processed to a verdict), and only advisories absent from the
\* cache are reported as not found.
C13_CacheOnlyLoadsCached ==
    /\ args.cache_only
    /\ scan.pc \in {"sbom", "process", "write_vex", "write_config"}
    => \A cve_id \in Range(scan.remaining_cves) :
          /\ cve_id \in DOMAIN scan.results
          /\ scan.results[cve_id] =
                IF load_cached(cve_id, cache).ok
                THEN load_cached(cve_id, cache)
                ELSE FetchErr("CveNotFound")

\* C14: an advisory id filed as patched is never queued for tracing: once
\* the summary is ingested the patched list and the queued list are
\* disjoint, also when an id occurs in several issues with different
\* statuses.
C14_PatchedNeverQueued ==
    scan.pc \notin {"off", "start"}
    => Range(scan.remaining_cves) \cap Range(scan.patched_cves) = {}

\* s ends in ".o"
EndsInDotO(s) == Len(s) >= 2 /\ HasAt(s, Len(s) - 1, ".o")

\* C15: every element of objects in every trace result ends in `.o`,
\* whatever existing path rel_file names (a .c file, a header, a directory)
\* and whatever the Makefiles hold.
C15_ObjectsEndInDotO ==
    \A w \in Tasks :
       Returned(w) => \A o \in ResultOf(w).objects : EndsInDotO(o)

\* label is `<o>@<dir>` for an object o of worker w's result, or
\* `CONFIG:<s>` for a symbol s of it
NamesNode(w, label) ==
    \/ \E o \in ResultOf(w).objects, d \in Directories \ {<<>>} :
          label = o \o "@" \o PathStr(d)
    \/ \E s \in ResultOf(w).symbols : label = "CONFIG:" \o s

\* C16: for every edge of every trace result, src and dst are each either
\* `<o>@<dir>` with o in objects or `CONFIG:<s>` with s in symbols; this
\* includes the edges that come from ancestor-directory seeds, whose target
\* is a directory-relative path such as sub/m.o.
C16_EdgeEndpointsNamed ==
    \A w \in Tasks :
       Returned(w)
       => \A n \in 1..Len(ResultOf(w).edges) :
             /\ NamesNode(w, ResultOf(w).edges[n].src)
             /\ NamesNode(w, ResultOf(w).edges[n].dst)

\* the path trace_kernel_config joins from src_root and rel_file
Joined(rel_file) == join(SrcRoot, trim_start_matches(trim(rel_file), "./"))

\* the proper ancestors of directory d, as paths
Ancestors(d) == {SubSeq(d, 1, n) : n \in 1..(Len(d) - 1)}

\* directory a lies strictly below the source root
BelowRoot(a) ==
    LET r == Resolve(a, <<>>) IN starts_with(r, SrcRoot) /\ r # SrcRoot

\* the directories a trace of rel_file is to scan: the file's own and its
\* proper ancestors strictly below the source root
ToScan(rel_file) ==
    LET own == unwrap(parent(Joined(rel_file))) IN
    {own} \cup {a \in Ancestors(own) : BelowRoot(a)}

\* C17: a trace scans the Makefiles of exactly the file's own directory and
\* of every proper ancestor of it strictly below the source root, each
\* ancestor seeded with the object path relative to it and its child's name
\* as subdir hint; the source root's Makefile is never scanned as a parent.
C17_AscentStopsBelowRoot ==
    \A w \in Tasks :
       Returned(w) /\ ResultOf(w).error = None
       => LET src_path == Joined(trace[w].file)
              own == unwrap(parent(src_path))
              scanned == Range(trace[w].scanned)
          IN /\ \A e \in scanned :
                   /\ e.directory \in ToScan(trace[w].file)
                   /\ is_some(e.subdir_hint)
                      => Resolve(e.directory, <<>>) # SrcRoot
             /\ \A d \in ToScan(trace[w].file) :
                   is_some(get_makefile_path(d))
                   => \E e \in scanned :
                         /\ e.directory = d
                         /\ d # own
                            => /\ e.target = object_path_relative_to(src_path, d)
                               /\ e.subdir_hint = Some(own[Len(d) + 1])

\* worker w's trace scanned no (target, directory) pair twice
ExpandedOnce(w) ==
    \A i, j \in 1..Len(trace[w].scanned) :
       i # j => \/ trace[w].scanned[i].target # trace[w].scanned[j].target
                \/ trace[w].scanned[i].directory
                      # trace[w].scanned[j].directory

\* the most object names a trace of the tree can collect: the seed and,
\* per Makefile line, the container names the line can yield
ObjectCap ==
    LET Lines[ds \in SUBSET MakefileDirs] ==
          IF ds = {} THEN 0
          ELSE LET d == CHOOSE x \in ds : TRUE
               IN Len(mk[d].raw) + Lines[ds \ {d}]
    IN 1 + 2 * Lines[MakefileDirs]

\* what is left to do in the call t: the names not yet collected weigh
\* more than the entries queued for them, a full queue more than its batch
Remaining(t) ==
    3 * (ObjectCap - Cardinality(t.objects))
    + 2 * (Len(t.processing_queue) + Len(t.current_batch))
    + (IF t.pc = "loop" THEN 1 ELSE 0)

\* C18: the BFS terminates for every tree and Makefile content, mutually
\* recursive containers included, and each (target, directory) pair is
\* expanded at most once.  Every step of a running call either returns or
\* lowers Remaining, a natural number, and leaves the call able to step
\* again; no step scans a pair already scanned.
C18_BfsTerminates ==
    [][\A w \in Tasks :
          trace[w].pc \in {"loop", "batch"}
          => /\ trace'[w].pc \in {"loop", "batch", "done"}
             /\ trace'[w].pc = "done" \/ Remaining(trace'[w]) < Remaining(trace[w])
             /\ Remaining(trace'[w]) >= 0
             /\ trace'[w].pc = "batch" => trace'[w].current_batch # <<>>
             /\ ExpandedOnce(w)']_vars

\* a trace of m.c has returned from a Makefile in which a.o and b.o
\* include one another, with both among its objects
C18_Witness ==
    /\ Returned(1)
    /\ {"a-objs := m.o b.o", "b-objs := a.o"} \subseteq LinesOf(SubDir)
    /\ {"m.o", "a.o", "b.o"} \subseteq ResultOf(1).objects
    /\ Len(trace[1].scanned) >= 3

\* the calls of workers v and w, both returned, returned alike: both
\* failed the same way or both gave the same symbols, objects and error
SameOutcome(v, w) ==
    /\ unwrap(trace[v].ret).kind = unwrap(trace[w].ret).kind
    /\ Returned(v)
       => /\ ResultOf(v).symbols = ResultOf(w).symbols
          /\ ResultOf(v).objects = ResultOf(w).objects
          /\ ResultOf(v).error = ResultOf(w).error

\* C19: tracing is a pure function of the relative path, the source root
\* and the Makefile contents.  Two traces of the same file on the same
\* tree, one after or beside the other, yield equal symbols and objects;
\* and a step of a trace changes nothing but the locals of its own call,
\* the static PATTERNS cell apart, which is only ever set to its one value.
C19_TracingIsPure ==
    /\ [](\A v, w \in Tasks :
             trace[v].pc = "done" /\ trace[w].pc = "done"
             /\ trace[v].file = trace[w].file
             => SameOutcome(v, w))
    /\ [](patterns \in {None, Some(RegexPatternsInit)})
    /\ [][/\ mk' = mk
          /\ pipeVars' = pipeVars
          /\ patterns # None => patterns' = patterns
          /\ \A v, w \in Tasks :
                trace'[v] # trace[v] /\ v # w => trace'[w] = trace[w]]_vars

\* both workers traced m.c over a Makefile whose scan yields two containers
\* at once and returned them
C19_Witness ==
    /\ Returned(1) /\ Returned(2)
    /\ trace[1].file = "drivers/sub/m.c" /\ trace[2].file = trace[1].file
    /\ {"a.o", "b.o", "c.o"} \subseteq ResultOf(1).objects
    /\ trace[1].edges # trace[2].edges

\* C20: the verdicts of a batch are a function of the inputs alone, the
\* detail strings included when the union holds two or more symbols.  The
\* union of an advisory is fixed by the inputs; so the verdict derived from
\* it is the one every iteration order of the union gives, whatever the
\* order of the advisory list and the schedule of the workers.
C20_VerdictsDetermined ==
    \A i \in Queued :
       is_some(proc[i].verdict)
       => \A symbols_list \in Orders(proc[i].union_symbols) :
             unwrap(proc[i].verdict)
                = derive_vex_state(unwrap(proc[i].is_enabled),
                                   proc[i].union_symbols, symbols_list)

\* C21: the edges of a trace appear in BFS discovery order and, within one
\* Makefile scan, in the order of the Makefile lines that produced them;
\* so two traces of the same file on the same tree return the same edge
\* sequence.
C21_SameEdgeSequence ==
    \A v, w \in Tasks :
       Returned(v) /\ Returned(w) /\ trace[v].file = trace[w].file
       => ResultOf(v).edges = ResultOf(w).edges

\* C22: adding a Makefile to a directory that had none, at or below a
\* scanned directory and all other Makefiles unchanged, never removes a
\* symbol from the trace's symbol set, also when the added Makefile
\* declares a container that an ancestor Makefile declares too.
C22_AddedMakefileKeepsSymbols ==
    call.op = "add_makefile" /\ Returned(1) /\ Returned(2)
    => ResultOf(1).symbols \subseteq ResultOf(2).symbols

\* the scan of the recorded call has returned Ok
Scanned ==
    /\ call.op = "scan_makefile_for_targets"
    /\ is_some(call.out)
    /\ unwrap(call.out).ok

ScannedLines == read_makefile_lines(call.makefile.raw)

\* every rule the hint allows, evaluated on every logical line
AllRules(lines, target, subdir) ==
    ScanOk(UNION {LineConfigs(lines[n], target, subdir, TRUE) :
                     n \in 1..Len(lines)},
           UNION {LineContainers(lines[n], target, TRUE) :
                     n \in 1..Len(lines)})

\* C23: the early-out changes no result: a scan that returns Ok returns what
\* rules R1-R4 (and R5 when a subdirectory hint is given) yield when they
\* are evaluated on every logical line, whether or not the target occurs in
\* the joined text.
C23_EarlyOutIsOptimisation ==
    Scanned /\ call.target # ""
    => unwrap(call.out) = AllRules(ScannedLines, call.target, call.subdir)

\* a scan with a hint whose target is absent from the text yields a symbol
C23_Witness ==
    /\ Scanned
    /\ ~Contains(JoinWith(ScannedLines, " "), call.target)
    /\ is_some(call.subdir)
    /\ unwrap(call.out).configs_for_target # {}

\* the physical line, right-trimmed, ends in a backslash
EndsInBackslash(l) ==
    LET s == trim_end(l) IN Len(s) > 0 /\ Ch(s, Len(s)) = "\\"

\* the physical line, right-trimmed, without its trailing backslash
WithoutBackslash(l) ==
    LET s == trim_end(l)
    IN IF EndsInBackslash(l) THEN SubSeq(s, 1, Len(s) - 1) ELSE s

\* the last physical line of the logical line that starts at line i
GroupEnd(raw, i) ==
    Min({j \in i..Len(raw) : ~EndsInBackslash(raw[j])} \cup {Len(raw)})

\* the maximal runs of non-whitespace characters of s, in order
RECURSIVE Words(_, _)
Words(s, cur) ==
    IF Len(s) = 0 THEN (IF cur = "" THEN <<>> ELSE <<cur>>)
    ELSE IF Ch(s, 1) \in SpaceChar
         THEN (IF cur = "" THEN <<>> ELSE <<cur>>)
              \o Words(SubSeq(s, 2, Len(s)), "")
         ELSE Words(SubSeq(s, 2, Len(s)), cur \o Ch(s, 1))

\* the logical lines of the physical lines from line i on: each group of
\* continued lines joined by single spaces, its words separated by single
\* spaces, empty results left out
RECURSIVE LogicalFrom(_, _)
LogicalFrom(raw, i) ==
    IF i > Len(raw) THEN <<>>
    ELSE LET j == GroupEnd(raw, i)
             text == JoinWith([k \in 1..(j - i + 1) |->
                                  WithoutBackslash(raw[i + k - 1])], " ")
             line == JoinWith(Words(text, ""), " ")
         IN (IF line = "" THEN <<>> ELSE <<line>>) \o LogicalFrom(raw, j + 1)

\* non-empty, no whitespace at either end, no two adjacent whitespace
NormalLine(l) ==
    /\ l # ""
    /\ Ch(l, 1) \notin SpaceChar
    /\ Ch(l, Len(l)) \notin SpaceChar
    /\ \A i \in 1..(Len(l) - 1) :
          ~(Ch(l, i) \in SpaceChar /\ Ch(l, i + 1) \in SpaceChar)

ReadDone == call.op = "read_makefile_lines" /\ is_some(call.out)

\* C24: reading a file that is missing returns the empty sequence; reading
\* a readable file returns, in file order, its groups of backslash-continued
\* physical lines, each joined by single spaces without the backslashes,
\* every returned line being non-empty, trimmed and free of whitespace
\* runs; and a container rule continued over two physical lines is found
\* for the target named on the second one.
C24_ReaderNormalForm ==
    ReadDone =>
      LET makefile == call.makefile
          out == unwrap(call.out)
      IN /\ ~makefile.exists => out = RetOk(<<>>)
         /\ makefile.exists /\ makefile.readable =>
              /\ out = RetOk(LogicalFrom(makefile.raw, 1))
              /\ \A n \in 1..Len(out.value) : NormalLine(out.value[n])
              /\ \A i \in 1..(Len(makefile.raw) - 1) :
                    /\ makefile.raw[i] = RawPool[1]
                    /\ makefile.raw[i + 1] = RawPool[2]
                    /\ (i = 1 \/ ~EndsInBackslash(makefile.raw[i - 1]))
                    => "xdrv.o" \in
                         scan_makefile_for_targets(makefile, "m.o",
                                                   None).containers

\* a read that folded two physical lines into one logical line
C24_Witness ==
    /\ ReadDone
    /\ call.makefile.readable
    /\ Len(call.makefile.raw) = 3
    /\ call.makefile.raw[1] = RawPool[1]
    /\ call.makefile.raw[2] = RawPool[2]
    /\ unwrap(call.out).value[1] = "xdrv-objs := a.o m.o b.o"

\* target occurs on the line as a complete name: between whitespace or the
\* ends of the line
NamesWhole(line, target) ==
    \E i \in 1..(Len(line) - Len(target) + 1) :
       /\ HasAt(line, i, target)
       /\ (i = 1 \/ Ch(line, i - 1) \in SpaceChar)
       /\ (i + Len(target) > Len(line)
             \/ Ch(line, i + Len(target)) \in SpaceChar)

\* C25: a scan without subdirectory hint takes symbols and containers only
\* from the logical lines on which the target occurs as a complete object
\* name; a line that has the target only as the tail of a hyphenated name
\* or of a path, or followed by a further suffix, contributes nothing.
C25_WholeNameMatching ==
    Scanned /\ call.subdir = None /\ call.target # ""
    => unwrap(call.out) =
          AllRules(SelectSeq(ScannedLines,
                             LAMBDA l : NamesWhole(l, call.target)),
                   call.target, None)

\* C26: a scan for driver.o of a Makefile made only of the lines
\* `obj-$(CONFIG_G) += driver.o` and `obj-y += driver.o` returns no
\* container, and a scan of the single line
\* `c-objs-$(CONFIG_BAZ) += driver.o` returns exactly the container c.o and
\* the symbol CONFIG_BAZ.
C26_RulesExtractOnlyListed ==
    Scanned /\ call.subdir = None /\ call.target = "driver.o"
    => /\ (\A n \in 1..Len(call.makefile.raw) :
              call.makefile.raw[n] \in {MatchPool[5], MatchPool[6]})
          => unwrap(call.out).containers = {}
       /\ call.makefile.raw = <<MatchPool[10]>>
          => unwrap(call.out) = ScanOk({"CONFIG_BAZ"}, {"c.o"})

ContainerVias ==
    {"container includes target", "parent container includes target"}

\* the positions of the container edges of call t
ContainerEdges(t) ==
    {n \in 1..Len(t.edges) : t.edges[n].via \in ContainerVias}

\* the entries of call t queued or in the batch still to be iterated
Pending(t) ==
    Range(t.processing_queue) \cup Range(t.current_batch)

\* the directories call t seeds: the file's own and its ancestors
ScanDirs(t) == {t.file_dir} \cup Ancestors(t.file_dir)

\* the call t runs, or has returned a result without error
Collecting(t) ==
    \/ t.pc \in {"loop", "batch"}
    \/ /\ t.pc = "done"
       /\ unwrap(t.ret).kind = "Ok"
       /\ unwrap(t.ret).value.error = None

\* C27: in every state of a trace the objects are the seed object and one
\* object per container edge; every other object name is the destination of
\* exactly one container edge, in one directory, and it is queued or
\* scanned at most once and only in that directory, so a container found in
\* the file's own directory is never expanded in an ancestor directory.
C27_ContainersOncePerName ==
    \A w \in Tasks :
       Collecting(trace[w])
       => LET t == trace[w]
              seed == replace(unwrap(file_name(Joined(t.file))), ".c", ".o")
          IN /\ Cardinality(t.objects) = 1 + Cardinality(ContainerEdges(t))
             /\ \A o \in t.objects \ {seed} :
                   \E d \in ScanDirs(t) :
                      /\ Cardinality({n \in ContainerEdges(t) :
                            \E e \in ScanDirs(t) :
                               t.edges[n].dst = o \o "@" \o PathStr(e)}) = 1
                      /\ \E n \in ContainerEdges(t) :
                            t.edges[n].dst = o \o "@" \o PathStr(d)
                      /\ \A q \in Pending(t) \cup Range(t.scanned) :
                            q.target = o => q.directory = d
                      /\ Cardinality({q \in Pending(t) : q.target = o})
                         + Cardinality({n \in 1..Len(t.scanned) :
                                           t.scanned[n].target = o}) <= 1

\* top.o was found in the file's own directory; the parent Makefile, which
\* has a rule for top.o and names top.o as a container of sub/m.o, was
\* scanned for sub/m.o, and top.o was scanned in the own directory only
C27_Witness ==
    /\ Returned(2)
    /\ {"top-objs := sub/m.o", "obj-$(CONFIG_T) += top.o"}
          \subseteq LinesOf(DriversDir)
    /\ \E n \in 1..Len(trace[2].edges) :
          /\ trace[2].edges[n].dst = "top.o@" \o PathStr(SubDir)
          /\ trace[2].edges[n].via = "container includes target"
    /\ \E n \in 1..Len(trace[2].scanned) :
          /\ trace[2].scanned[n].target = "sub/m.o"
          /\ trace[2].scanned[n].directory = DriversDir
    /\ \E n \in 1..Len(trace[2].scanned) :
          /\ trace[2].scanned[n].target = "top.o"
          /\ trace[2].scanned[n].directory = SubDir

\* the cache directory files holds a file for id that parses
Parseable(files, id) == load_cached(id, files).ok

\* fetch_many_cves has been called, with a cache directory and force = false
ReadThrough(c) == is_some(c.cache_dir) /\ ~c.force

\* in call c a request was sent for id
Requested(c, id) == id \in Range(c.requests)

\* a request is sent for an id iff the directory held no parseable file
RequestsIffNotCached(c) ==
    ReadThrough(c)
    => \A id \in Range(c.cve_ids) :
          Requested(c, id) <=> ~Parseable(c.before, id)

\* a failed fetch leaves the cache as it was
FailureKeepsCache(c, files_after) ==
    \A id \in Range(c.cve_ids) :
       Requested(c, id) /\ ~c.results[id].ok
       => /\ (id \in DOMAIN files_after) = (id \in DOMAIN c.before)
          /\ id \in DOMAIN c.before => files_after[id] = c.before[id]

\* one entry per requested id, each what the id alone would give
OneEntryEach(c) ==
    /\ DOMAIN c.results = Range(c.cve_ids)
    /\ \A id \in Range(c.cve_ids) :
          c.results[id] =
             IF ReadThrough(c) /\ Parseable(c.before, id)
             THEN load_cached(id, c.before)
             ELSE fetch_cve(id, c.answers)

\* what call p fetched from the network with a cache directory, the next
\* call c, if it reads through, returns without a request
NextCallHits(p, c) ==
    \A id \in Range(p.cve_ids) \cap Range(c.cve_ids) :
       /\ Requested(p, id) /\ p.results[id].ok /\ is_some(p.cache_dir)
       /\ ReadThrough(c)
       => ~Requested(c, id) /\ c.results[id] = p.results[id]

FetchReturned == call.op = "fetch_many_cves" /\ call.round >= 1

C29_ShardsMatchEntries ==
    call.op = "write_split_vex_output" /\ call.round >= 1
    => \A s \in VexStates :
          LET f == "vex_" \o s \o ".json"
              of_state == EntriesOfState(call.vex_entries, s)
          IN /\ f \in DOMAIN outfiles[VexOutDir] <=> of_state # <<>>
             /\ f \in DOMAIN outfiles[VexOutDir]
                => outfiles[VexOutDir][f] = build_vex(of_state)

============================================================================
